---- MODULE Spec2Model ----
(***************************************************************************)
(* A model of the shepherd simulation library (src/lib/src): the           *)
(* simulation graph, the response model and the epoch driver.              *)
(*                                                                         *)
(* Node ids are the dense 0-based indices of the petgraph graph.  The      *)
(* graph is the pair (nodes, edges): nodes[n + 1] is the kind of node n    *)
(* and edges is the list of <<from, to, weight>> triples in insertion      *)
(* order (a directed multigraph).                                          *)
(*                                                                         *)
(* The rng handed to every stochastic call is a deterministic stream: its  *)
(* state is a number, every draw steps it.  The seed is an input.          *)
(***************************************************************************)
EXTENDS Integers, Sequences, FiniteSets

\* ------------------------------------------------------------------ bounds

\* seeds of the rng stream handed to the driver: 1..MaxSeed
MaxSeed == 6

\* number of simulate_epoch calls explored after new
MaxEpochs == 2

\* largest value a Poisson sample takes in the model
PoissonCap == 2

\* resolution of a uniform draw in [0, 1): the draws of the model are 0, the
\* least positive draw 2^-DrawBits, and k / UnitDen for k in 1..UnitDen - 1
UnitDen == 4

\* --------------------------------------------------------- f64 constants

\* rng.gen::<f64>() is a multiple of 2^-53
DrawBits == 53

\* 2^-d is a positive f64 for d <= 1074 and rounds to 0.0 beyond
Pow2Min == 1074

\* 10^d is a finite f64 for d <= 308 and +inf beyond
Pow10Max == 308

\* 9^d is a finite f64 for d <= 323 and +inf beyond
Pow9Max == 323

\* ------------------------------------------------------------- sequences

\* F applied to the value of v, v evaluated once
Bind(v, F(_)) == CHOOSE r \in {F(x) : x \in {v}} : TRUE

Range(s) == {s[i] : i \in DOMAIN s}

Min(a, b) == IF a <= b THEN a ELSE b

\* the elements of a set of numbers in ascending order
RECURSIVE SortedSeq(_)
SortedSeq(S) ==
    IF S = {} THEN <<>>
    ELSE Bind(CHOOSE x \in S : \A y \in S : x <= y,
              LAMBDA m : <<m>> \o SortedSeq(S \ {m}))

Reverse(s) == [i \in 1..Len(s) |-> s[Len(s) + 1 - i]]

\* the order in which a HashSet is iterated: unspecified by the code; one of
\* two orders, fixed per run
IterOrder(S, rev) == IF rev THEN Reverse(SortedSeq(S)) ELSE SortedSeq(S)

\* itertools tuple_combinations over a sequence: every (s[i], s[j]), i < j,
\* in lexicographic order of (i, j)
RECURSIVE tuple_combinations(_)
tuple_combinations(s0) ==
    Bind(s0, LAMBDA s :
        IF Len(s) < 2 THEN <<>>
        ELSE [j \in 1..(Len(s) - 1) |-> <<s[1], s[j + 1]>>]
             \o tuple_combinations(Tail(s)))

\* itertools cartesian_product: for a in s, for b in t
RECURSIVE cartesian_product(_, _)
cartesian_product(s0, t) ==
    Bind(s0, LAMBDA s :
        IF s = <<>> THEN <<>>
        ELSE [j \in 1..Len(t) |-> <<s[1], t[j]>>] \o cartesian_product(Tail(s), t))

\* ------------------------------------------------------- f64 arithmetic

\* decimal digits (least significant first) of a number
RECURSIVE Digits(_)
Digits(n) == IF n < 10 THEN <<n>> ELSE <<n % 10>> \o Digits(n \div 10)

\* digits of (ds * m + carry), m a small factor
RECURSIVE MulDigits(_, _, _)
MulDigits(ds0, m, carry0) ==
    Bind(<<ds0, carry0>>, LAMBDA s :
        IF s[1] = <<>>
        THEN IF s[2] = 0 THEN <<>> ELSE Digits(s[2])
        ELSE <<(Head(s[1]) * m + s[2]) % 10>>
             \o MulDigits(Tail(s[1]), m, (Head(s[1]) * m + s[2]) \div 10))

\* digits of ds * m^e
RECURSIVE TimesPow(_, _, _)
TimesPow(ds0, m, e) ==
    Bind(ds0, LAMBDA ds :
        IF e = 0 \/ ds = <<0>> THEN ds ELSE TimesPow(MulDigits(ds, m, 0), m, e - 1))

\* a <= b for digit lists without leading zeros
RECURSIVE DigitsLe(_, _)
DigitsLe(a, b) ==
    IF Len(a) # Len(b) THEN Len(a) < Len(b)
    ELSE IF a = <<>> THEN TRUE
    ELSE IF a[Len(a)] # b[Len(b)] THEN a[Len(a)] < b[Len(b)]
    ELSE DigitsLe(SubSeq(a, 1, Len(a) - 1), SubSeq(b, 1, Len(b) - 1))

\* the f64 values the response model meets: NaN, or the number
\* k * 9^e9 / (2^d2 * 10^d10 * UnitDen^du), 0.0 when k = 0
f64(k, e9, d2, d10, du) ==
    [nan |-> FALSE, k |-> k, e9 |-> e9, d2 |-> d2, d10 |-> d10, du |-> du]

f64_nan == [nan |-> TRUE, k |-> 0, e9 |-> 0, d2 |-> 0, d10 |-> 0, du |-> 0]

\* the digits of (numerator of x) * (denominator of y)
CrossProduct(x, y) ==
    TimesPow(TimesPow(TimesPow(TimesPow(Digits(x.k), 9, x.e9), 2, y.d2), 10, y.d10),
             UnitDen, y.du)

\* x with the powers it shares with y cancelled
Reduced(x, y) ==
    [x EXCEPT !.e9 = @ - Min(@, y.e9), !.d2 = @ - Min(@, y.d2),
              !.d10 = @ - Min(@, y.d10), !.du = @ - Min(@, y.du)]

\* floor(10^5 * ln n) for n in 1..10
LnFloor == <<0, 69314, 109861, 138629, 160943, 179175, 194591, 207944, 219722, 230258>>

\* a lower bound of 10^5 * ln of (numerator of x) * (denominator of y); the
\* logarithm itself is less than LogLo + LogTerms
LogLo(x, y) ==
    LnFloor[x.k] + x.e9 * LnFloor[9] + y.d2 * LnFloor[2] + y.d10 * LnFloor[10]
    + y.du * LnFloor[UnitDen]

LogTerms(x, y) == 1 + x.e9 + y.d2 + y.d10 + y.du

\* x <= y on f64: false when either is NaN; else the cross products are
\* compared, by their logarithms where these are far enough apart to decide
f64_le(x, y) ==
    IF x.nan \/ y.nan THEN FALSE
    ELSE IF x.k = 0 THEN TRUE
    ELSE IF y.k = 0 THEN FALSE
    ELSE Bind(<<Reduced(x, y), Reduced(y, x)>>, LAMBDA r :
            IF LogLo(r[1], r[2]) + LogTerms(r[1], r[2]) <= LogLo(r[2], r[1]) THEN TRUE
            ELSE IF LogLo(r[2], r[1]) + LogTerms(r[2], r[1]) <= LogLo(r[1], r[2])
            THEN FALSE
            ELSE DigitsLe(CrossProduct(r[1], r[2]), CrossProduct(r[2], r[1])))

\* the value of the draw c of gen_unit
draw_value(c) ==
    IF c = 0 THEN f64(0, 0, 0, 0, 0)
    ELSE IF c = 1 THEN f64(1, 0, DrawBits, 0, 0)
    ELSE f64(c - 1, 0, 0, 0, 1)

\* ------------------------------------------------------------------- rng

\* one step of the rng stream (a full-period Lehmer generator)
RngNext(r) == (r * 75 + 74) % 65537

\* rng.gen_range(lo..=hi)
gen_range(r, lo, hi) ==
    Bind(RngNext(r), LAMBDA n : [val |-> lo + (n % (hi - lo + 1)), rng |-> n])

\* rng.gen::<f64>(): the draw number val of the model's draws, in [0, 1)
gen_unit(r) == Bind(RngNext(r), LAMBDA n : [val |-> n % (UnitDen + 1), rng |-> n])

\* one sample of Poisson(lambda) cast to usize
poisson_sample(r) ==
    Bind(RngNext(r), LAMBDA n : [val |-> n % (PoissonCap + 1), rng |-> n])

\* poisson_new_ok that takes the rate 0 as well
poisson_new_ok_zero(n) == n >= 0

\* Poisson::new(lambda) with lambda = n / d, d > 0: an error unless lambda > 0
poisson_new_ok(n) == n > 0

\* slice.shuffle(rng): for i in (1..len).rev() { swap(i, gen_range(0..=i)) };
\* st = [val: the slice, rng]
RECURSIVE ShuffleFrom(_, _)
ShuffleFrom(st0, i) ==
    Bind(st0, LAMBDA st :
        IF i < 1 THEN st
        ELSE Bind(gen_range(st.rng, 0, i), LAMBDA d :
                ShuffleFrom([val |-> [st.val EXCEPT ![i + 1] = st.val[d.val + 1],
                                                    ![d.val + 1] = st.val[i + 1]],
                             rng |-> d.rng],
                            i - 1)))

shuffle(r, s) == ShuffleFrom([val |-> s, rng |-> r], Len(s) - 1)

\* iterator.choose_multiple(rng, amount): reservoir sampling; the first
\* `amount` elements fill the reservoir, element number i + amount replaces
\* slot k = gen_range(0..=i + amount) when k < amount; st = [val, rng]
RECURSIVE Reservoir(_, _, _, _)
Reservoir(st0, rest0, i, amount) ==
    Bind(<<st0, rest0>>, LAMBDA b :
        IF b[2] = <<>> THEN b[1]
        ELSE Bind(gen_range(b[1].rng, 0, i + amount), LAMBDA d :
                Reservoir([val |-> IF d.val < amount
                                   THEN [b[1].val EXCEPT ![d.val + 1] = Head(b[2])]
                                   ELSE b[1].val,
                           rng |-> d.rng],
                          Tail(b[2]), i + 1, amount)))

\* choose_multiple that draws every element anew from the whole pool, so
\* that an element can be chosen twice
RECURSIVE choose_with_replacement(_, _, _)
choose_with_replacement(r, s, amount) ==
    IF amount = 0 \/ s = <<>> THEN [val |-> <<>>, rng |-> r]
    ELSE Bind(gen_range(r, 1, Len(s)), LAMBDA d :
         Bind(choose_with_replacement(d.rng, s, amount - 1), LAMBDA rest :
            [val |-> <<s[d.val]>> \o rest.val, rng |-> rest.rng]))

choose_multiple(r, s, amount) ==
    IF Len(s) < amount THEN [val |-> s, rng |-> r]
    ELSE Reservoir([val |-> SubSeq(s, 1, amount), rng |-> r],
                   SubSeq(s, amount + 1, Len(s)), 0, amount)

\* ----------------------------------------------------------------- graph

\* Graph::add_edge on the edge list
add_edge(es, a, b, w) == Append(es, <<a, b, w>>)

\* create_nodes_ids with the ids counted from 1
create_nodes_ids_from_one(ns, n) == [x \in 1..n |-> Len(ns) + x]

\* create_nodes(n): the ids of n fresh nodes of one kind
create_nodes_ids(ns, n) == [x \in 1..n |-> Len(ns) + x - 1]

\* create_nodes(n): the node list after n nodes of the kind are added
create_nodes(ns, kind, n) == ns \o [x \in 1..n |-> kind]

\* neighbors_undirected in petgraph's order: the outgoing edges, newest
\* first, then the incoming edges, newest first
RECURSIVE neighbors_undirected(_, _, _)
neighbors_undirected(es, id, outgoing) ==
    IF es = <<>> THEN <<>>
    ELSE neighbors_undirected(Tail(es), id, outgoing)
         \o (IF outgoing /\ Head(es)[1] = id THEN <<Head(es)[2]>>
             ELSE IF ~outgoing /\ Head(es)[2] = id /\ Head(es)[1] # id THEN <<Head(es)[1]>>
             ELSE <<>>)

\* associated_tags with Graph::neighbors in place of neighbors_undirected:
\* only the nodes the outgoing edges lead to
associated_tags_outgoing(es, id) == neighbors_undirected(es, id, TRUE)

\* associated_tags(id): the neighbours of the node over its edges of either
\* direction, in the order the graph yields them
associated_tags(es, id) ==
    neighbors_undirected(es, id, TRUE) \o neighbors_undirected(es, id, FALSE)

\* add_mirrored without the second add_edge: a->b only
RECURSIVE add_forward(_, _, _, _)
add_forward(st0, pairs0, lo, hi) ==
    Bind(<<st0, pairs0>>, LAMBDA s :
        IF s[2] = <<>> THEN s[1]
        ELSE Bind(gen_range(s[1].rng, lo, hi), LAMBDA w1 :
                add_forward([edges |-> add_edge(s[1].edges, Head(s[2])[1],
                                                Head(s[2])[2], w1.val),
                             rng |-> w1.rng],
                            Tail(s[2]), lo, hi)))

\* for every pair (a, b) of the list: add a->b and b->a, each with its own
\* weight drawn from lo..=hi; st = [edges, rng]
RECURSIVE add_mirrored(_, _, _, _)
add_mirrored(st0, pairs0, lo, hi) ==
    Bind(<<st0, pairs0>>, LAMBDA s :
        IF s[2] = <<>> THEN s[1]
        ELSE Bind(gen_range(s[1].rng, lo, hi), LAMBDA w1 :
             Bind(gen_range(w1.rng, lo, hi), LAMBDA w2 :
                add_mirrored([edges |-> add_edge(add_edge(s[1].edges, Head(s[2])[1],
                                                          Head(s[2])[2], w1.val),
                                                 Head(s[2])[2], Head(s[2])[1], w2.val),
                              rng |-> w2.rng],
                             Tail(s[2]), lo, hi))))

\* add_sparse with the weights of the edges inside a group, 5..=10
RECURSIVE add_sparse_heavy(_, _)
add_sparse_heavy(st0, pairs0) ==
    Bind(<<st0, pairs0>>, LAMBDA s :
        IF s[2] = <<>> THEN s[1]
        ELSE Bind(gen_unit(s[1].rng), LAMBDA c :
                IF f64_le(draw_value(c.val), f64(1, 0, 0, 3, 0))
                THEN add_sparse_heavy(add_mirrored([edges |-> s[1].edges, rng |-> c.rng],
                                                   <<Head(s[2])>>, 5, 10),
                                      Tail(s[2]))
                ELSE add_sparse_heavy([edges |-> s[1].edges, rng |-> c.rng], Tail(s[2]))))

\* for every pair (a, b) of the list: with probability 1e-3 add a->b and
\* b->a, each with its own weight drawn from 1..=5
RECURSIVE add_sparse(_, _)
add_sparse(st0, pairs0) ==
    Bind(<<st0, pairs0>>, LAMBDA s :
        IF s[2] = <<>> THEN s[1]
        ELSE Bind(gen_unit(s[1].rng), LAMBDA c :
                IF f64_le(draw_value(c.val), f64(1, 0, 0, 3, 0))
                THEN add_sparse(add_mirrored([edges |-> s[1].edges, rng |-> c.rng],
                                             <<Head(s[2])>>, 1, 5),
                                Tail(s[2]))
                ELSE add_sparse([edges |-> s[1].edges, rng |-> c.rng], Tail(s[2]))))

\* the loop that cuts the shuffled tag list into consecutive slices, one
\* Poisson sample per slice, at most `remaining` slices;
\* st = [slices, n_stored, rng]
\* take_slices without the break: a sample that finds no tag left still
\* pushes an (empty) slice
RECURSIVE take_slices_unbroken(_, _, _)
take_slices_unbroken(st0, ts, remaining) ==
    Bind(st0, LAMBDA st :
        IF remaining = 0 THEN st
        ELSE Bind(poisson_sample(st.rng), LAMBDA d :
             Bind(IF st.n_stored + d.val >= Len(ts) THEN Len(ts) - st.n_stored ELSE d.val,
                  LAMBDA n_tags :
                take_slices_unbroken(
                        [slices |-> Append(st.slices,
                                           {ts[x] : x \in (st.n_stored + 1)
                                                          ..(st.n_stored + n_tags)}),
                         n_stored |-> st.n_stored + n_tags,
                         rng |-> d.rng],
                        ts, remaining - 1))))

RECURSIVE take_slices(_, _, _)
take_slices(st0, ts, remaining) ==
    Bind(st0, LAMBDA st :
        IF remaining = 0 THEN st
        ELSE Bind(poisson_sample(st.rng), LAMBDA d :
             Bind(IF st.n_stored + d.val >= Len(ts) THEN Len(ts) - st.n_stored ELSE d.val,
                  LAMBDA n_tags :
                IF st.n_stored + d.val >= Len(ts) /\ n_tags = 0
                THEN [st EXCEPT !.rng = d.rng]
                ELSE take_slices(
                        [slices |-> Append(st.slices,
                                           {ts[x] : x \in (st.n_stored + 1)
                                                          ..(st.n_stored + n_tags)}),
                         n_stored |-> st.n_stored + n_tags,
                         rng |-> d.rng],
                        ts, remaining - 1))))

\* leftover with the slice bound off by one: the first tag no slice took is
\* dropped
leftover_skip(ts, n_stored) == {ts[x] : x \in (n_stored + 2)..Len(ts)}

\* tags[n_stored..]: the tags no slice took, which become orphans
leftover(ts, n_stored) == {ts[x] : x \in (n_stored + 1)..Len(ts)}

\* the pairs of all groups, group after group
RECURSIVE group_pairs(_, _)
group_pairs(gs0, rev) ==
    Bind(gs0, LAMBDA gs :
        IF gs = <<>> THEN <<>>
        ELSE tuple_combinations(IterOrder(Head(gs), rev)) \o group_pairs(Tail(gs), rev))

\* the pairs across every two groups of the list
RECURSIVE cross_pairs(_, _)
cross_pairs(gpairs0, rev) ==
    Bind(gpairs0, LAMBDA gpairs :
        IF gpairs = <<>> THEN <<>>
        ELSE cartesian_product(IterOrder(Head(gpairs)[1], rev),
                               IterOrder(Head(gpairs)[2], rev))
             \o cross_pairs(Tail(gpairs), rev))

\* the index pairs (i, j), i < j, of a list of n entries, as tuple_combinations
\* over 0..n yields them (1-based here)
index_pairs(n) == tuple_combinations([x \in 1..n |-> x])

\* add_new_tag_groups(rng, groups, orphans, max_groups, tags) on the graph
\* state st = [edges, rng]; ts is the tag list in the order the caller's
\* iterator yields it.  The result carries ok = FALSE for Err(PoissonError).
add_new_tag_groups(st, groups, orphans, max_groups, ts, rev) ==
    Bind(shuffle(st.rng, ts), LAMBDA sh :
        IF ~poisson_new_ok(Len(ts))
        THEN [ok |-> FALSE, edges |-> st.edges, rng |-> sh.rng,
              groups |-> groups, orphans |-> orphans]
        ELSE
        Bind(take_slices([slices |-> <<>>, n_stored |-> 0, rng |-> sh.rng],
                         sh.val, max_groups), LAMBDA cut :
        Bind(groups \o cut.slices, LAMBDA groups2 :
        Bind(add_mirrored([edges |-> st.edges, rng |-> cut.rng],
                          group_pairs(groups2, rev), 5, 10), LAMBDA intra :
        Bind(index_pairs(Len(groups2)), LAMBDA ij :
        Bind(add_sparse(intra,
                        cross_pairs([x \in 1..Len(ij) |->
                                        <<groups2[ij[x][1]], groups2[ij[x][2]]>>], rev)),
             LAMBDA inter :
                [ok |-> TRUE, edges |-> inter.edges, rng |-> inter.rng,
                 groups |-> groups2,
                 orphans |-> orphans \cup leftover(sh.val, cut.n_stored)]))))))

\* member_pairs without the pairs new_members[i] x groups[i]
RECURSIVE member_pairs_inside(_, _, _, _)
member_pairs_inside(new_members, groups, x, rev) ==
    IF x > Len(new_members) THEN <<>>
    ELSE tuple_combinations(IterOrder(new_members[x], rev))
         \o member_pairs_inside(new_members, groups, x + 1, rev)

\* the family-1 pairs of add_to_tag_groups: for each i, the pairs inside
\* new_members[i], then new_members[i] x groups[i]
RECURSIVE member_pairs(_, _, _, _)
member_pairs(new_members, groups, x, rev) ==
    IF x > Len(new_members) THEN <<>>
    ELSE tuple_combinations(IterOrder(new_members[x], rev))
         \o cartesian_product(IterOrder(new_members[x], rev), IterOrder(groups[x], rev))
         \o member_pairs(new_members, groups, x + 1, rev)

\* the pairs add_to_tag_groups tries an inter-group edge pair for: with
\* (i, j) from (0..new_members.len()).tuple_combinations(), the product
\* new_members[i] x groups[j]; the result keeps them as candidates, next to
\* new_members
member_group_pairs(new_members, groups, rev) ==
    Bind(index_pairs(Len(new_members)), LAMBDA ij :
        cross_pairs([x \in 1..Len(ij) |->
                        <<new_members[ij[x][1]], groups[ij[x][2]]>>], rev))

\* extend_groups that overwrites a group with its new members
assign_groups(groups, new_members) ==
    [x \in 1..Len(groups) |->
        IF x <= Len(new_members) THEN new_members[x] ELSE groups[x]]

\* groups.iter_mut().zip(new_members): group.extend(new_members)
extend_groups(groups, new_members) ==
    [x \in 1..Len(groups) |->
        IF x <= Len(new_members) THEN groups[x] \cup new_members[x] ELSE groups[x]]

\* add_to_tag_groups(rng, groups, orphans, tags)
add_to_tag_groups(st, groups, orphans, ts, rev) ==
    Bind(shuffle(st.rng, ts), LAMBDA sh :
        IF ts = <<>>
        THEN [ok |-> TRUE, edges |-> st.edges, rng |-> sh.rng,
              groups |-> groups, orphans |-> orphans,
              new_members |-> <<>>, candidates |-> <<>>]
        ELSE IF ~poisson_new_ok(Len(ts))
        THEN [ok |-> FALSE, edges |-> st.edges, rng |-> sh.rng,
              groups |-> groups, orphans |-> orphans,
              new_members |-> <<>>, candidates |-> <<>>]
        ELSE
        Bind(take_slices([slices |-> <<>>, n_stored |-> 0, rng |-> sh.rng],
                         sh.val, Len(groups)), LAMBDA cut :
        Bind(add_mirrored([edges |-> st.edges, rng |-> cut.rng],
                          member_pairs(cut.slices, groups, 1, rev), 5, 10), LAMBDA intra :
        Bind(member_group_pairs(cut.slices, groups, rev), LAMBDA candidates :
        Bind(add_sparse(intra, candidates), LAMBDA inter :
                [ok |-> TRUE, edges |-> inter.edges, rng |-> inter.rng,
                 groups |-> extend_groups(groups, cut.slices),
                 orphans |-> orphans \cup leftover(sh.val, cut.n_stored),
                 new_members |-> cut.slices, candidates |-> candidates])))))

\* connect_one with the two directions swapped
RECURSIVE connect_one_swapped(_, _, _, _)
connect_one_swapped(st0, source, chosen0, reverse_direction) ==
    Bind(<<st0, chosen0>>, LAMBDA s :
        IF s[2] = <<>> THEN s[1]
        ELSE Bind(gen_range(s[1].rng, 1, 10), LAMBDA w :
                connect_one_swapped(
                    [edges |-> IF reverse_direction
                               THEN add_edge(s[1].edges, source, Head(s[2]), w.val)
                               ELSE add_edge(s[1].edges, Head(s[2]), source, w.val),
                     rng |-> w.rng],
                    source, Tail(s[2]), reverse_direction)))

\* the edges of one source node of connect_extremities: one edge per chosen
\* tag, weight drawn from 1..=10, tag -> source when reverse_direction
RECURSIVE connect_one(_, _, _, _)
connect_one(st0, source, chosen0, reverse_direction) ==
    Bind(<<st0, chosen0>>, LAMBDA s :
        IF s[2] = <<>> THEN s[1]
        ELSE Bind(gen_range(s[1].rng, 1, 10), LAMBDA w :
                connect_one([edges |-> IF reverse_direction
                                       THEN add_edge(s[1].edges, Head(s[2]), source, w.val)
                                       ELSE add_edge(s[1].edges, source, Head(s[2]), w.val),
                             rng |-> w.rng],
                            source, Tail(s[2]), reverse_direction)))

\* the loop of connect_extremities over the source nodes; st = [edges, rng,
\* drawn], drawn the values of n_edges drawn so far, one per source node
RECURSIVE connect_extremities_from(_, _, _, _, _, _)
connect_extremities_from(st0, source_nodes0, target_nodes, lo, hi, reverse_direction) ==
    Bind(<<st0, source_nodes0>>, LAMBDA s :
        IF s[2] = <<>> THEN s[1]
        ELSE Bind(gen_range(s[1].rng, lo, hi), LAMBDA n_edges :
             Bind(choose_multiple(n_edges.rng, target_nodes, n_edges.val), LAMBDA chosen :
             Bind(connect_one([edges |-> s[1].edges, rng |-> chosen.rng],
                              Head(s[2]), chosen.val, reverse_direction), LAMBDA one :
                connect_extremities_from(
                    [edges |-> one.edges, rng |-> one.rng,
                     drawn |-> Append(s[1].drawn, n_edges.val)],
                    Tail(s[2]), target_nodes, lo, hi, reverse_direction)))))

\* connect_extremities that draws the targets among the source nodes
connect_extremities_among(st, source_nodes, target_nodes, lo, hi, reverse_direction) ==
    connect_extremities_from([edges |-> st.edges, rng |-> st.rng, drawn |-> <<>>],
                             source_nodes, source_nodes, lo, hi, reverse_direction)

\* connect_extremities(rng, source_nodes, target_nodes, edge_bounds,
\* reverse_direction), edge_bounds = lo..=hi
connect_extremities(st, source_nodes, target_nodes, lo, hi, reverse_direction) ==
    connect_extremities_from([edges |-> st.edges, rng |-> st.rng, drawn |-> <<>>],
                             source_nodes, target_nodes, lo, hi, reverse_direction)

\* -------------------------------------------------------- response model

\* p_positive(distance) = 2f64.powf(-distance): 2^-distance, which is 0.0
\* below the least subnormal
p_positive(distance) ==
    IF distance > Pow2Min THEN f64(0, 0, 0, 0, 0) ELSE f64(1, 0, distance, 0, 0)

\* p_neutral(distance) = 9f64.powf(distance) / 10f64.powf(distance): the
\* powers are +inf beyond the f64 range, finite / inf is 0.0, inf / inf is NaN
p_neutral(distance) ==
    IF distance > Pow9Max THEN f64_nan
    ELSE IF distance > Pow10Max THEN f64(0, 0, 0, 0, 0)
    ELSE f64(1, distance, 0, distance, 0)

\* c <= p_positive(distance), for the draw c
le_p_positive(c, distance) == f64_le(draw_value(c), p_positive(distance))

\* c <= p_neutral(distance), for the draw c
le_p_neutral(c, distance) == f64_le(draw_value(c), p_neutral(distance))

\* PathMeasure(weight sum, hops): the derived Ord is lexicographic
PathMeasureLess(a, b) == a[1] < b[1] \/ (a[1] = b[1] /\ a[2] < b[2])

\* impl Add for PathMeasure
PathMeasureAdd(a, b) == <<a[1] + b[1], a[2] + b[2]>>

\* out_edges over the symmetrized graph: every edge of the node, turned to
\* lead away from it
out_edges_undirected(es, node) ==
    Bind({x \in 1..Len(es) : es[x][1] = node \/ es[x][2] = node}, LAMBDA idx :
        Bind(SortedSeq(idx), LAMBDA order :
            [x \in 1..Len(order) |->
                IF es[order[x]][1] = node THEN es[order[x]]
                ELSE <<node, es[order[x]][1], es[order[x]][3]>>]))

\* the outgoing edges of a node, in edge-list order
out_edges(es, node) ==
    Bind({x \in 1..Len(es) : es[x][1] = node}, LAMBDA idx :
        Bind(SortedSeq(idx), LAMBDA order : [x \in 1..Len(order) |-> es[order[x]]]))

\* the relaxation of the outgoing edges of a popped node
RECURSIVE relax(_, _, _, _)
relax(outs0, node_score, scores0, visited) ==
    Bind(<<outs0, scores0>>, LAMBDA s :
        IF s[1] = <<>> THEN s[2]
        ELSE Bind(<<Head(s[1])[2], PathMeasureAdd(node_score, <<Head(s[1])[3], 1>>)>>,
                  LAMBDA n :
                IF n[1] \in visited
                THEN relax(Tail(s[1]), node_score, s[2], visited)
                ELSE IF n[1] \in DOMAIN s[2]
                THEN relax(Tail(s[1]), node_score,
                           IF PathMeasureLess(n[2], s[2][n[1]])
                           THEN [s[2] EXCEPT ![n[1]] = n[2]] ELSE s[2],
                           visited)
                ELSE relax(Tail(s[1]), node_score,
                           [x \in DOMAIN s[2] \cup {n[1]} |->
                              IF x = n[1] THEN n[2] ELSE s[2][x]],
                           visited)))

\* petgraph algo::dijkstra(graph, start, Some(goal), cost): pops the
\* unvisited node of least score until the goal is popped or none is left
RECURSIVE dijkstra_loop(_, _, _, _)
dijkstra_loop(es, goal, scores0, visited0) ==
    Bind(<<scores0, visited0>>, LAMBDA s :
        Bind(DOMAIN s[1] \ s[2], LAMBDA frontier :
            IF frontier = {} THEN s[1]
            ELSE Bind(CHOOSE n \in frontier :
                          \A m \in frontier : ~PathMeasureLess(s[1][m], s[1][n]),
                      LAMBDA node :
                    IF node = goal THEN s[1]
                    ELSE dijkstra_loop(es, goal,
                                       relax(out_edges(es, node), s[1][node], s[1], s[2]),
                                       s[2] \cup {node}))))

dijkstra(es, start, goal) ==
    dijkstra_loop(es, goal, [x \in {start} |-> <<0, 0>>], {})

\* the rating of a reachable item for the draw c = k / UnitDen
rate(c, distance) ==
    IF le_p_positive(c, distance) THEN "Positive"
    ELSE IF le_p_neutral(c, distance) THEN "Neutral"
    ELSE "Negative"

\* the values of the response model of src/src/sheep.rs: NaN, or the
\* fraction num / den
ratio(num, den) == [nan |-> FALSE, num |-> num, den |-> den]

ratio_nan == [nan |-> TRUE, num |-> 0, den |-> 1]

\* a <= b * m1^e1 * m2^e2 * .. for ms = << <<m1, e1>>, <<m2, e2>>, .. >> and
\* factors of 1 or more: b is multiplied until it reaches a
RECURSIVE LeTimesPows(_, _, _)
LeTimesPows(a, b, ms) ==
    IF a <= b THEN TRUE
    ELSE IF ms = <<>> \/ b = 0 THEN FALSE
    ELSE IF ms[1][2] = 0 THEN LeTimesPows(a, b, Tail(ms))
    ELSE LeTimesPows(a, b * ms[1][1], << <<ms[1][1], ms[1][2] - 1>> >> \o Tail(ms))

\* c <= q for the draw c and a value q of src/src/sheep.rs: false when q is
\* NaN, else the cross products are compared
draw_le_ratio(c, q) ==
    IF q.nan THEN FALSE
    ELSE Bind(draw_value(c), LAMBDA x :
            LeTimesPows(x.k * q.den, q.num, << <<UnitDen, x.du>>, <<2, x.d2>> >>))

\* src/src/sheep.rs, p_positive(distance) = distance.neg().powi(2): the
\* square of -distance
p_positive_powi(distance) == ratio(distance * distance, 1)

\* src/src/sheep.rs, p_neutral(distance) = distance.powi(9) /
\* distance.powi(10): 0.0 / 0.0 is NaN; for a distance of 1 or more the f64
\* next to 1 / distance, which lies on the same side of every draw of the
\* model as 1 / distance does
p_neutral_powi(distance) ==
    IF distance = 0 THEN ratio_nan ELSE ratio(1, distance)

\* src/src/sheep.rs, the match on rng.gen::<f64>() in process_feed
rate_powi(c, distance) ==
    IF draw_le_ratio(c, p_positive_powi(distance)) THEN "Positive"
    ELSE IF draw_le_ratio(c, p_neutral_powi(distance)) THEN "Neutral"
    ELSE "Negative"

\* dijkstra(..).get(&item): <<PathMeasure>> for Some, <<>> for None
measure(es, sheep_id, item) ==
    Bind(dijkstra(es, sheep_id, item), LAMBDA scores :
        IF item \in DOMAIN scores THEN <<scores[item]>> ELSE <<>>)

\* respond with a missing path measure taken as PathMeasure(0, 0)
respond_default(r, es, sheep_id, item) ==
    Bind(measure(es, sheep_id, item), LAMBDA m0 :
    Bind(IF m0 # <<>> THEN m0 ELSE << <<0, 0>> >>, LAMBDA m :
        Bind(gen_unit(r), LAMBDA c :
            [val |-> <<item, rate(c.val, m[1][1]), <<m[1][2]>> >>,
             log |-> [sheep |-> sheep_id, item |-> item, distance |-> <<m[1][1]>>,
                      draw |-> <<c.val>>],
             rng |-> c.rng])))

\* one response of process_feed: <<item, rating, hops>>, hops <<h>> for
\* Some(h) and <<>> for None; the rng is drawn from only when a path exists.
\* log is the line process_feed traces: the distance, <<>> for "unconnected"
respond(r, es, sheep_id, item) ==
    Bind(measure(es, sheep_id, item), LAMBDA m :
        IF m # <<>>
        THEN Bind(gen_unit(r), LAMBDA c :
                [val |-> <<item, rate(c.val, m[1][1]), <<m[1][2]>> >>,
                 log |-> [sheep |-> sheep_id, item |-> item, distance |-> <<m[1][1]>>,
                          draw |-> <<c.val>>],
                 rng |-> c.rng])
        ELSE [val |-> <<item, "Negative", <<>> >>,
              log |-> [sheep |-> sheep_id, item |-> item, distance |-> <<>>,
                       draw |-> <<>>],
              rng |-> r])

\* process_feed_from that passes over an item no path leads to
RECURSIVE process_feed_from_reachable(_, _, _, _)
process_feed_from_reachable(st0, es, sheep_id, feed0) ==
    Bind(<<st0, feed0>>, LAMBDA s :
        IF s[2] = <<>> THEN s[1]
        ELSE Bind(respond(s[1].rng, es, sheep_id, Head(s[2])), LAMBDA resp :
                process_feed_from_reachable(
                    IF resp.val[3] = <<>>
                    THEN [val |-> s[1].val, log |-> Append(s[1].log, resp.log),
                          rng |-> resp.rng]
                    ELSE [val |-> Append(s[1].val, resp.val),
                          log |-> Append(s[1].log, resp.log),
                          rng |-> resp.rng],
                    es, sheep_id, Tail(s[2]))))

\* process_feed(rng, graph, sheep, feed): one response per feed item, in
\* feed order; st = [val: the responses so far, log, rng]
RECURSIVE process_feed_from(_, _, _, _)
process_feed_from(st0, es, sheep_id, feed0) ==
    Bind(<<st0, feed0>>, LAMBDA s :
        IF s[2] = <<>> THEN s[1]
        ELSE Bind(respond(s[1].rng, es, sheep_id, Head(s[2])), LAMBDA resp :
                process_feed_from([val |-> Append(s[1].val, resp.val),
                                   log |-> Append(s[1].log, resp.log),
                                   rng |-> resp.rng],
                                  es, sheep_id, Tail(s[2]))))

process_feed(r, es, sheep_id, feed) ==
    process_feed_from([val |-> <<>>, log |-> <<>>, rng |-> r], es, sheep_id, feed)

\* ------------------------------------------------------------ the driver

VARIABLES
    settings,       \* Settings: the bounds and thresholds of the run
    roster,         \* the shepherd programs, in roster order
    build,          \* what the sources leave open: edge directions, hash order
    rng,            \* the state of the rng stream
    current_epoch,  \* Simulation.current_epoch
    nodes,          \* graph: kind of every node
    edges,          \* graph: <<from, to, weight>> of every edge
    tags,           \* Simulation.tags
    sheep,          \* Simulation.sheep
    items,          \* Simulation.items
    tag_groups,     \* Simulation.tag_groups
    tag_orphans,    \* Simulation.tag_orphans
    sheep_seen,     \* per shepherd: the map sheep -> items already shown
    pc,             \* where the driver is
    phase,          \* the call in progress: "new" or "epoch"
    k,              \* the shepherd being served (index into the roster)
    i,              \* the sheep being served (index into the sheep list)
    epoch_event,    \* the BeginEpoch event of the call in progress
    outcome,        \* result of the last call: "ok" or "err"
    calls,          \* simulate_epoch calls made so far
    events,         \* history: the events of the call in progress, in order
    begun,          \* history: per shepherd, the BeginEpoch events written to it
    created,        \* history: the node ids created by the call in progress
    fed,            \* history: <<shepherd, sheep, item>> of every feed read so far
    traced,         \* what the last process_feed call traced, a line per feed item
    parts,          \* stop: the shepherds stopped so far, then the SimulationParts
    dummies         \* per shepherd, the state of a dummy-shepherd process and its pipes

vars == <<settings, roster, build, rng, current_epoch, nodes, edges, tags, sheep,
          items, tag_groups, tag_orphans, sheep_seen, pc, phase, k, i,
          epoch_event, outcome, calls, events, begun, created, fed, traced, parts, dummies>>

graph_vars == <<nodes, edges, tags, sheep, items, tag_groups, tag_orphans>>

\* the runs explored: settings, roster and build of each
Setups ==
    { [settings |-> [n_tags_bounds |-> <<0, 2>>, n_items_bounds |-> <<0, 1>>,
                     n_item_tags_bounds |-> <<1, 2>>, n_sheep_tags_bounds |-> <<1, 2>>,
                     initial_n_tags_bounds |-> <<3, 4>>, initial_n_items_bounds |-> <<1, 2>>,
                     initial_n_sheep_bounds |-> <<2, 2>>,
                     average_tags_per_group |-> 2, orphaned_tag_threshold |-> 2],
       roster |-> <<"any", "echo">>,
       build |-> [sheep_reverse |-> FALSE, item_reverse |-> TRUE, hash_rev |-> FALSE]],
      [settings |-> [n_tags_bounds |-> <<1, 2>>, n_items_bounds |-> <<1, 1>>,
                     n_item_tags_bounds |-> <<0, 3>>, n_sheep_tags_bounds |-> <<1, 3>>,
                     initial_n_tags_bounds |-> <<2, 3>>, initial_n_items_bounds |-> <<1, 1>>,
                     initial_n_sheep_bounds |-> <<1, 1>>,
                     average_tags_per_group |-> 1, orphaned_tag_threshold |-> 1],
       roster |-> <<"any", "any">>,
       build |-> [sheep_reverse |-> FALSE, item_reverse |-> TRUE, hash_rev |-> TRUE]],
      [settings |-> [n_tags_bounds |-> <<0, 1>>, n_items_bounds |-> <<0, 2>>,
                     n_item_tags_bounds |-> <<1, 1>>, n_sheep_tags_bounds |-> <<2, 2>>,
                     initial_n_tags_bounds |-> <<2, 5>>, initial_n_items_bounds |-> <<0, 2>>,
                     initial_n_sheep_bounds |-> <<0, 2>>,
                     average_tags_per_group |-> 2, orphaned_tag_threshold |-> 3],
       roster |-> <<"any">>,
       build |-> [sheep_reverse |-> TRUE, item_reverse |-> FALSE, hash_rev |-> FALSE]],
      [settings |-> [n_tags_bounds |-> <<0, 0>>, n_items_bounds |-> <<0, 0>>,
                     n_item_tags_bounds |-> <<0, 0>>, n_sheep_tags_bounds |-> <<0, 0>>,
                     initial_n_tags_bounds |-> <<0, 0>>, initial_n_items_bounds |-> <<0, 0>>,
                     initial_n_sheep_bounds |-> <<0, 0>>,
                     average_tags_per_group |-> 1, orphaned_tag_threshold |-> 1],
       roster |-> <<"any">>,
       build |-> [sheep_reverse |-> FALSE, item_reverse |-> FALSE, hash_rev |-> FALSE]],
      [settings |-> [n_tags_bounds |-> <<0, 1>>, n_items_bounds |-> <<0, 1>>,
                     n_item_tags_bounds |-> <<1, 1>>, n_sheep_tags_bounds |-> <<1, 1>>,
                     initial_n_tags_bounds |-> <<2, 3>>, initial_n_items_bounds |-> <<1, 1>>,
                     initial_n_sheep_bounds |-> <<1, 1>>,
                     average_tags_per_group |-> 1, orphaned_tag_threshold |-> 0],
       roster |-> <<"echo", "quits">>,
       build |-> [sheep_reverse |-> FALSE, item_reverse |-> FALSE, hash_rev |-> FALSE]] }

Seeds == 1..MaxSeed

Shepherds == 1..Len(roster)

\* the feeds a shepherd program may answer a FeedRequest with: "echo" always
\* names the first item ever introduced; "any" names nothing, or two items,
\* or an item twice around an id the driver never announced
ShepherdFeeds(kind, its, n_nodes) ==
    IF its = <<>> THEN {<<>>}
    ELSE IF kind = "echo" THEN {<<its[1]>>}
    ELSE {<<>>, <<its[1], its[Len(its)]>>, <<its[Len(its)], n_nodes, its[Len(its)]>>}

\* ------------------------------------------------------ dummy shepherd

\* choose_multiple(&mut rand::thread_rng(), 10): the most items of a Feed
FeedMax == 10

\* main before the first event is read: no item known, no sheep seen; stdin
\* and stdout are the two pipes between the driver and the process, log
\* keeps for every event read its kind and the number of events written
\* for it
dummy_main ==
    [items |-> {}, sheep_seen |-> <<>>, stdin |-> <<>>, stdout |-> <<>>, log |-> <<>>]

\* dummy_answers that takes the Responses arm for a request as well
dummy_answers_responses(kind) == kind \in {"FeedRequest", "Responses"}

\* the match of main: the FeedRequest arm alone writes to stdout, the
\* BeginEpoch arm and the catch-all arm write nothing
dummy_answers(kind) == kind = "FeedRequest"

\* dummy_difference that offers every item known
dummy_difference_none(its, seen, sheep_id) == its

\* items.difference(seen), seen the entry of the sheep, empty when new
dummy_difference(its, seen, sheep_id) ==
    its \ (IF sheep_id \in DOMAIN seen THEN seen[sheep_id] ELSE {})

\* .choose_multiple(&mut rand::thread_rng(), 10): any FeedMax of the items
\* offered, or all of them when they are fewer
dummy_choose(offered) ==
    {S \in SUBSET offered : Cardinality(S) = Min(FeedMax, Cardinality(offered))}

\* dummy_seen_extend that makes the entry of the sheep and leaves it as it is
dummy_seen_forget(seen, sheep_id, chosen) ==
    [x \in DOMAIN seen \cup {sheep_id} |-> IF x \in DOMAIN seen THEN seen[x] ELSE {}]

\* sheep_seen.entry(sheep).or_insert_with(HashSet::new), then
\* seen.extend(chosen.iter().copied())
dummy_seen_extend(seen, sheep_id, chosen) ==
    [x \in DOMAIN seen \cup {sheep_id} |->
        (IF x \in DOMAIN seen THEN seen[x] ELSE {})
            \cup (IF x = sheep_id THEN Range(chosen) ELSE {})]

\* one round of the loop of main on the event read from stdin; chosen is
\* the list choose_multiple returned, used by the FeedRequest arm only
dummy_event(d, event, chosen) ==
    [items |-> IF event.kind = "BeginEpoch" THEN d.items \cup Range(event.items)
               ELSE d.items,
     sheep_seen |-> IF dummy_answers(event.kind)
                    THEN dummy_seen_extend(d.sheep_seen, event.sheep, chosen)
                    ELSE d.sheep_seen,
     stdin |-> Tail(d.stdin),
     stdout |-> IF dummy_answers(event.kind)
                THEN Append(d.stdout, [kind |-> "Feed", items |-> chosen])
                ELSE d.stdout,
     log |-> Append(d.log, <<event.kind, IF dummy_answers(event.kind) THEN 1 ELSE 0>>)]

\* Shepherd::write_event towards a dummy shepherd: the events are appended
\* to the stdin pipe of the process
deliver(ds, kk, evs) ==
    IF roster[kk] = "dummy" THEN [ds EXCEPT ![kk].stdin = @ \o evs] ELSE ds

\* the blocking read of build_feed: the item lists the next Feed event on
\* the stdout pipe can hold, none while a dummy shepherd has not written
read_feed(kind, ds, kk) ==
    IF kind = "dummy"
    THEN (IF ds[kk].stdout = <<>> THEN {} ELSE {Head(ds[kk].stdout).items})
    ELSE ShepherdFeeds(kind, items, Len(nodes))

\* the Feed event read is taken off the stdout pipe
take_feed(ds, kk) ==
    IF roster[kk] = "dummy" THEN [ds EXCEPT ![kk].stdout = Tail(@)] ELSE ds

Init ==
    /\ \E s \in Setups :
          /\ settings = s.settings
          /\ roster = s.roster
          /\ build = s.build
    /\ rng \in Seeds
    /\ current_epoch = 0
    /\ nodes = <<>>
    /\ edges = <<>>
    /\ tags = <<>>
    /\ sheep = <<>>
    /\ items = <<>>
    /\ tag_groups = <<>>
    /\ tag_orphans = {}
    /\ sheep_seen = [x \in 1..Len(roster) |-> <<>>]
    /\ pc = "start"
    /\ phase = "new"
    /\ k = 1
    /\ i = 1
    /\ epoch_event = <<>>
    /\ outcome = "ok"
    /\ calls = 0
    /\ events = <<>>
    /\ begun = [x \in 1..Len(roster) |-> <<>>]
    /\ created = {}
    /\ fed = {}
    /\ traced = <<>>
    /\ parts = <<>>
    /\ dummies = [x \in 1..Len(roster) |-> dummy_main]

\* Shepherd::write_event: serde_json::to_writer onto the stdin pipe of the
\* shepherd process.  The write succeeds while the process reads its stdin;
\* a "quits" shepherd exits once the seeding epoch is over, and a write to
\* its pipe fails from then on.
write_event_ok(kind, ph) == ~(kind = "quits" /\ ph = "epoch")

\* the events of the protocol; shepherd 0 stands for the observer hooks
BeginEpoch(id, ts, its) == [kind |-> "BeginEpoch", id |-> id, tags |-> ts, items |-> its]

\* Shepherd::introduce_to(graph, sheep): the SheepIntroduction event
introduce_to(es, sheep_id) ==
    [kind |-> "SheepIntroduction", sheep |-> sheep_id,
     associated_tags |-> associated_tags(es, sheep_id)]

\* Shepherd::build_feed(sheep), first half: the FeedRequest event written
FeedRequest(sheep_id) == [kind |-> "FeedRequest", sheep |-> sheep_id]

\* Shepherd::build_feed(sheep), second half: the Feed event read back
Feed(feed) == [kind |-> "Feed", items |-> feed]

\* Shepherd::incorporate_responses(sheep, responses): the event written
incorporate_responses(sheep_id, responses) ==
    [kind |-> "Responses", sheep |-> sheep_id, responses |-> responses]

\* the driver moves on to the next shepherd of the roster, or returns
NextShepherd ==
    IF k < Len(roster)
    THEN pc' = "begin" /\ k' = k + 1 /\ i' = 1
    ELSE pc' = "idle" /\ k' = 1 /\ i' = 1

\* AfterFeed with the loops nested the other way round: the sheep outside,
\* the shepherds inside
AfterFeedSheepMajor ==
    IF k < Len(roster)
    THEN pc' = "request" /\ k' = k + 1 /\ i' = i
    ELSE IF i < Len(sheep)
    THEN pc' = "request" /\ k' = 1 /\ i' = i + 1
    ELSE pc' = "idle" /\ k' = 1 /\ i' = 1

\* after a sheep's feed is rated: the next sheep of the list, or the next
\* shepherd
AfterFeed ==
    IF i < Len(sheep)
    THEN pc' = "request" /\ i' = i + 1 /\ k' = k
    ELSE NextShepherd

\* the first shepherd of a call, or the return of the call when there is none
FirstShepherd ==
    IF Len(roster) > 0
    THEN pc' = "begin" /\ k' = 1 /\ i' = 1
    ELSE pc' = "idle" /\ k' = 1 /\ i' = 1

\* Simulation::new, the seeding of the graph: tags and their groups, sheep
\* and their edges, items and their edges, drawn in that order from the rng
seed_graph(st, r) ==
    Bind(gen_range(r, st.initial_n_tags_bounds[1], st.initial_n_tags_bounds[2]),
         LAMBDA n_tags :
    Bind(<<create_nodes_ids(<<>>, n_tags.val), create_nodes(<<>>, "Tag", n_tags.val)>>,
         LAMBDA t :
    Bind(add_new_tag_groups([edges |-> <<>>, rng |-> n_tags.rng], <<>>, {},
                            Len(t[1]) \div st.average_tags_per_group, t[1],
                            build.hash_rev),
         LAMBDA grp :
    IF ~grp.ok THEN [ok |-> FALSE]
    ELSE
    Bind(gen_range(grp.rng, st.initial_n_sheep_bounds[1], st.initial_n_sheep_bounds[2]),
         LAMBDA n_sheep :
    Bind(<<create_nodes_ids(t[2], n_sheep.val), create_nodes(t[2], "Sheep", n_sheep.val)>>,
         LAMBDA sh :
    Bind(connect_extremities([edges |-> grp.edges, rng |-> n_sheep.rng], sh[1], t[1],
                             st.n_sheep_tags_bounds[1], st.n_sheep_tags_bounds[2],
                             build.sheep_reverse),
         LAMBDA con1 :
    Bind(gen_range(con1.rng, st.initial_n_items_bounds[1], st.initial_n_items_bounds[2]),
         LAMBDA n_items :
    Bind(<<create_nodes_ids(sh[2], n_items.val), create_nodes(sh[2], "Item", n_items.val)>>,
         LAMBDA it :
    Bind(connect_extremities([edges |-> con1.edges, rng |-> n_items.rng], it[1], t[1],
                             st.n_item_tags_bounds[1], st.n_item_tags_bounds[2],
                             build.item_reverse),
         LAMBDA con2 :
        [ok |-> TRUE, nodes |-> it[2], edges |-> con2.edges, rng |-> con2.rng,
         tags |-> t[1], sheep |-> sh[1], items |-> it[1],
         groups |-> grp.groups, orphans |-> grp.orphans])))))))))

\* Simulation::new up to the first shepherd write
New ==
    /\ pc = "start"
    /\ \E g \in {seed_graph(settings, rng)} :
          IF ~g.ok
          THEN /\ pc' = "failed"
               /\ outcome' = "err"
               /\ UNCHANGED <<settings, roster, build, rng, current_epoch, nodes, edges,
                              tags, sheep, items, tag_groups, tag_orphans, sheep_seen,
                              phase, k, i, epoch_event, calls, events, begun, created, fed,
                              traced, parts, dummies>>
          ELSE /\ nodes' = g.nodes
               /\ edges' = g.edges
               /\ rng' = g.rng
               /\ tags' = g.tags
               /\ sheep' = g.sheep
               /\ items' = g.items
               /\ tag_groups' = g.groups
               /\ tag_orphans' = g.orphans
               /\ epoch_event' = BeginEpoch(current_epoch, g.tags, g.items)
               /\ events' = << <<0, [kind |-> "new_epoch_hook", id |-> current_epoch,
                                    tags |-> g.tags, items |-> g.items]>> >>
               /\ created' = Len(nodes)..(Len(g.nodes) - 1)
               /\ phase' = "new"
               /\ outcome' = "ok"
               /\ FirstShepherd
               /\ UNCHANGED <<settings, roster, build, current_epoch, sheep_seen,
                              calls, begun, fed, traced, parts, dummies>>

\* Simulation::simulate_epoch, its first step: the new tags are created and
\* attached to the groups.  new_tags and nodes are the ids and the node list
\* after create_nodes; the rest is the result of add_to_tag_groups.
attach_tags(st, r) ==
    Bind(gen_range(r, st.n_tags_bounds[1], st.n_tags_bounds[2]), LAMBDA n_tags :
    Bind(add_to_tag_groups([edges |-> edges, rng |-> n_tags.rng],
                           tag_groups, tag_orphans,
                           create_nodes_ids(nodes, n_tags.val), build.hash_rev),
         LAMBDA att :
        [ok |-> att.ok, edges |-> att.edges, rng |-> att.rng, groups |-> att.groups,
         orphans |-> att.orphans,
         new_tags |-> create_nodes_ids(nodes, n_tags.val),
         nodes |-> create_nodes(nodes, "Tag", n_tags.val)]))

\* tags_at_drain with the population extended after the drain only
tags_at_drain_late(ts, new_tags) == ts

\* self.tags.extend(new_tags.iter()) comes before the drain: the tag
\* population at the point where the drain can fail
tags_at_drain(ts, new_tags) == ts \o new_tags

\* the drain without its test
drain_due_always(orphans, st) == TRUE

\* the drain test with > in place of >=
drain_due_strict(orphans, st) == Cardinality(orphans) > st.orphaned_tag_threshold

\* self.tag_orphans.len() >= self.settings.orphaned_tag_threshold
drain_due(orphans, st) == Cardinality(orphans) >= st.orphaned_tag_threshold

\* the max_groups of the drain: orphans.len() / average_tags_per_group
drain_max_groups(orphans, st) == Cardinality(orphans) \div st.average_tags_per_group

\* epoch_sources that wires the sheep anew next to the new items
epoch_sources_with_sheep(sh, new_items) == sh \o new_items

\* the source nodes simulate_epoch passes to connect_extremities:
\* new_items.iter().copied(), never the sheep
epoch_sources(sh, new_items) == new_items

\* extend_items that forgets the new items
extend_items_not(its, new_items) == its

\* self.items.extend(new_items.iter())
extend_items(its, new_items) == its \o new_items

\* Simulation::simulate_epoch, the growth of the graph: new tags attached to
\* the groups, the orphan drain, new items and their edges.  ok = FALSE for
\* the Err return; the fields then hold the state at the failure point.
grow_graph(st, r) ==
    Bind(attach_tags(st, r), LAMBDA att :
    Bind(<<att.new_tags, att.nodes>>, LAMBDA t :
    IF ~att.ok
    THEN [ok |-> FALSE, nodes |-> t[2], edges |-> att.edges, rng |-> att.rng,
          tags |-> tags, items |-> items, new_tags |-> t[1], new_items |-> <<>>,
          groups |-> att.groups, orphans |-> att.orphans]
    ELSE
    Bind(IF drain_due(att.orphans, st)
         THEN add_new_tag_groups([edges |-> att.edges, rng |-> att.rng], att.groups, {},
                                 drain_max_groups(att.orphans, st),
                                 IterOrder(att.orphans, build.hash_rev), build.hash_rev)
         ELSE att,
         LAMBDA grp :
    IF ~grp.ok
    THEN [ok |-> FALSE, nodes |-> t[2], edges |-> grp.edges, rng |-> grp.rng,
          tags |-> tags_at_drain(tags, t[1]), items |-> items,
          new_tags |-> t[1], new_items |-> <<>>,
          groups |-> grp.groups, orphans |-> grp.orphans]
    ELSE
    Bind(gen_range(grp.rng, st.n_items_bounds[1], st.n_items_bounds[2]), LAMBDA n_items :
    Bind(<<create_nodes_ids(t[2], n_items.val), create_nodes(t[2], "Item", n_items.val)>>,
         LAMBDA it :
    Bind(connect_extremities([edges |-> grp.edges, rng |-> n_items.rng],
                             epoch_sources(sheep, it[1]),
                             tags \o t[1],
                             st.n_item_tags_bounds[1], st.n_item_tags_bounds[2],
                             build.item_reverse),
         LAMBDA con :
        [ok |-> TRUE, nodes |-> it[2], edges |-> con.edges, rng |-> con.rng,
         tags |-> tags \o t[1], items |-> extend_items(items, it[1]),
         new_tags |-> t[1], new_items |-> it[1],
         groups |-> grp.groups, orphans |-> grp.orphans]))))))

\* epoch_data carrying the whole populations instead of the new nodes
epoch_data_all(g) == [tags |-> g.tags, items |-> g.items]

\* the Epoch value of simulate_epoch: the tags and items this call created
epoch_data(g) == [tags |-> g.new_tags, items |-> g.new_items]

\* advance_epoch that leaves the counter where it was
advance_epoch_not(id) == id

\* self.current_epoch.0 += 1
advance_epoch(id) == id + 1

\* Simulation::simulate_epoch up to the first shepherd write
SimulateEpoch ==
    /\ pc = "idle"
    /\ calls < MaxEpochs
    /\ calls' = calls + 1
    /\ phase' = "epoch"
    /\ \E g \in {grow_graph(settings, rng)} :
          /\ nodes' = g.nodes
          /\ edges' = g.edges
          /\ rng' = g.rng
          /\ tags' = g.tags
          /\ items' = g.items
          /\ tag_groups' = g.groups
          /\ tag_orphans' = g.orphans
          /\ created' = Len(nodes)..(Len(g.nodes) - 1)
          /\ IF ~g.ok
             THEN /\ outcome' = "err"
                  /\ events' = <<>>
                  /\ UNCHANGED <<current_epoch, pc, k, i, epoch_event>>
             ELSE /\ outcome' = "ok"
                  /\ current_epoch' = advance_epoch(current_epoch)
                  /\ epoch_event' = BeginEpoch(advance_epoch(current_epoch), epoch_data(g).tags,
                                               epoch_data(g).items)
                  /\ events' = << <<0, [kind |-> "new_epoch_hook", id |-> advance_epoch(current_epoch),
                                       tags |-> g.new_tags, items |-> g.new_items]>> >>
                  /\ FirstShepherd
    /\ traced' = <<>>
    /\ UNCHANGED <<settings, roster, build, sheep, sheep_seen, begun, fed, parts, dummies>>

\* shepherd.write_event(BeginEpoch) for the shepherd being served
WriteBeginEpoch ==
    /\ pc = "begin"
    /\ write_event_ok(roster[k], phase)
    /\ events' = Append(events, <<k, epoch_event>>)
    /\ begun' = [begun EXCEPT ![k] = Append(@, epoch_event)]
    /\ dummies' = deliver(dummies, k, <<epoch_event>>)
    /\ IF sheep # <<>>
       THEN pc' = "introduce" /\ i' = 1 /\ k' = k
       ELSE NextShepherd
    /\ UNCHANGED <<settings, roster, build, rng, current_epoch, graph_vars, sheep_seen,
                   phase, epoch_event, outcome, calls, created, fed, traced, parts>>

\* IntroduceTo with the introduction loop merged into the feed loop: the
\* feed of a sheep is requested right after its introduction
IntroduceToMerged ==
    /\ pc = "introduce"
    /\ write_event_ok(roster[k], phase)
    /\ events' = Append(events, <<k, introduce_to(edges, sheep[i])>>)
    /\ dummies' = deliver(dummies, k, <<introduce_to(edges, sheep[i])>>)
    /\ IF phase = "epoch"
       THEN pc' = "request" /\ i' = i /\ k' = k
       ELSE IF i < Len(sheep)
       THEN pc' = pc /\ i' = i + 1 /\ k' = k
       ELSE NextShepherd
    /\ UNCHANGED <<settings, roster, build, rng, current_epoch, graph_vars, sheep_seen,
                   phase, epoch_event, outcome, calls, begun, created, fed, traced,
                   parts>>

\* shepherd.introduce_to(graph, sheep) for the next sheep of the list
IntroduceTo ==
    /\ pc = "introduce"
    /\ write_event_ok(roster[k], phase)
    /\ events' = Append(events, <<k, introduce_to(edges, sheep[i])>>)
    /\ dummies' = deliver(dummies, k, <<introduce_to(edges, sheep[i])>>)
    /\ IF i < Len(sheep)
       THEN pc' = pc /\ i' = i + 1 /\ k' = k
       ELSE IF phase = "epoch"
       THEN pc' = "request" /\ i' = 1 /\ k' = k
       ELSE NextShepherd
    /\ UNCHANGED <<settings, roster, build, rng, current_epoch, graph_vars, sheep_seen,
                   phase, epoch_event, outcome, calls, begun, created, fed, traced,
                   parts>>

\* BuildFeedRequest with the requests of all sheep written before the first
\* reply is read
BuildFeedRequestBatched ==
    /\ pc = "request"
    /\ write_event_ok(roster[k], phase)
    /\ events' = Append(events, <<k, FeedRequest(sheep[i])>>)
    /\ dummies' = deliver(dummies, k, <<FeedRequest(sheep[i])>>)
    /\ IF i < Len(sheep) THEN pc' = "request" /\ i' = i + 1 ELSE pc' = "read" /\ i' = i
    /\ UNCHANGED <<settings, roster, build, rng, current_epoch, graph_vars, sheep_seen,
                   phase, k, epoch_event, outcome, calls, begun, created, fed, traced,
                   parts>>

\* shepherd.build_feed(sheep): the FeedRequest is written, the driver then
\* blocks reading the reply
BuildFeedRequest ==
    /\ pc = "request"
    /\ write_event_ok(roster[k], phase)
    /\ events' = Append(events, <<k, FeedRequest(sheep[i])>>)
    /\ dummies' = deliver(dummies, k, <<FeedRequest(sheep[i])>>)
    /\ pc' = "read"
    /\ UNCHANGED <<settings, roster, build, rng, current_epoch, graph_vars, sheep_seen,
                   phase, k, i, epoch_event, outcome, calls, begun, created, fed, traced,
                   parts>>

\* seen_extend that replaces the set of the sheep by the items of the feed
seen_replace(seen, sheep_id, feed) ==
    [x \in DOMAIN seen \cup {sheep_id} |->
        IF x = sheep_id THEN Range(feed) ELSE seen[x]]

\* the seen-map update of simulate_epoch
seen_extend(seen, sheep_id, feed) ==
    IF sheep_id \in DOMAIN seen
    THEN [seen EXCEPT ![sheep_id] = @ \cup Range(feed)]
    ELSE [x \in DOMAIN seen \cup {sheep_id} |->
            IF x = sheep_id THEN Range(feed) ELSE seen[x]]

\* the state of the driver at the moment a hook fires: the items the
\* seen-map holds for the sheep, and the rng
hook_view(seen, sheep_id, r) ==
    [seen |-> IF sheep_id \in DOMAIN seen THEN seen[sheep_id] ELSE {}, rng |-> r]

\* feed_generation_at with the hook fired next to feed_rated_hook, after the
\* seen-map update and process_feed
feed_generation_late(before, after) == after

\* feed_generation_hook fires right after build_feed returned: of the state
\* before and the state after the seen-map update and process_feed, it
\* fires in the former
feed_generation_at(before, after) == before

\* the Feed reply is read; the rest of the loop body of simulate_epoch runs:
\* hooks, seen-map, process_feed, incorporate_responses
BuildFeedReply ==
    /\ pc = "read"
    /\ \E feed \in read_feed(roster[k], dummies, k) :
          \E responses \in {process_feed(rng, edges, sheep[i], feed)} :
             /\ sheep_seen' = [sheep_seen EXCEPT ![k] = seen_extend(@, sheep[i], feed)]
             /\ rng' = responses.rng
             /\ traced' = responses.log
             /\ fed' = fed \cup {<<k, sheep[i], x>> : x \in Range(feed)}
             /\ events' = events \o
                   << <<k, Feed(feed)>>,
                      <<0, [kind |-> "feed_generation_hook", shepherd |-> k,
                            sheep |-> sheep[i], feed |-> feed,
                            at |-> feed_generation_at(
                                     hook_view(sheep_seen[k], sheep[i], rng),
                                     hook_view(seen_extend(sheep_seen[k], sheep[i], feed),
                                               sheep[i], responses.rng))]>>,
                      <<0, [kind |-> "feed_rated_hook", shepherd |-> k,
                            sheep |-> sheep[i], responses |-> responses.val,
                            at |-> hook_view(seen_extend(sheep_seen[k], sheep[i], feed),
                                             sheep[i], responses.rng)]>>,
                      <<k, incorporate_responses(sheep[i], responses.val)>> >>
             /\ dummies' = deliver(take_feed(dummies, k), k,
                                   <<incorporate_responses(sheep[i], responses.val)>>)
    /\ AfterFeed
    /\ UNCHANGED <<settings, roster, build, current_epoch, graph_vars,
                   phase, epoch_event, outcome, calls, begun, created, parts>>

\* Shepherd::write_event when the write fails: .expect(...) panics and the
\* process unwinds out of simulate_epoch
WriteEventPanic ==
    /\ pc \in {"begin", "introduce", "request"}
    /\ ~write_event_ok(roster[k], phase)
    /\ pc' = "panicked"
    /\ outcome' = "panic"
    /\ UNCHANGED <<settings, roster, build, rng, current_epoch, graph_vars, sheep_seen,
                   phase, k, i, epoch_event, calls, events, begun, created, fed, traced,
                   parts, dummies>>

\* Shepherd::stop: the input stream of the process is closed and its exit
\* waited for; TRUE for Ok.  A process that has exited already is waited
\* for like any other.
shepherd_stop(kind) == TRUE

\* push_shepherd_id that puts the id in front
push_shepherd_id_front(ids, id) == <<id>> \o ids

\* shepherd_ids.push(id), id the ShepherdId of enumerate(): 0 for the first
push_shepherd_id(ids, id) == Append(ids, id)

\* the SimulationParts value stop returns
SimulationParts(ids) ==
    [final_epoch |-> current_epoch, nodes |-> nodes, edges |-> edges,
     settings |-> settings, tags |-> tags, sheep |-> sheep, items |-> items,
     tag_groups |-> tag_groups, tag_orphans |-> tag_orphans, shepherd_ids |-> ids]

\* Simulation::stop, called between two calls of simulate_epoch: self is
\* taken apart and the loop over the shepherds begins; without shepherds it
\* returns at once
Stop ==
    /\ pc = "idle"
    /\ IF roster = <<>>
       THEN /\ pc' = "stopped"
            /\ parts' = [stopped |-> <<>>, returned |-> <<SimulationParts(<<>>)>>]
       ELSE /\ pc' = "stopping"
            /\ parts' = [stopped |-> <<>>, shepherd_ids |-> <<>>]
    /\ k' = 1
    /\ UNCHANGED <<settings, roster, build, rng, current_epoch, graph_vars, sheep_seen,
                   phase, i, epoch_event, outcome, calls, events, begun, created, fed,
                   traced, dummies>>

\* one round of the loop of stop: shepherd.stop()? and shepherd_ids.push(id);
\* after the last shepherd, Ok(SimulationParts)
StopShepherd ==
    /\ pc = "stopping"
    /\ IF ~shepherd_stop(roster[k])
       THEN /\ pc' = "stop_failed"
            /\ outcome' = "err"
            /\ UNCHANGED <<k, parts>>
       ELSE /\ outcome' = outcome
            /\ IF k < Len(roster)
               THEN /\ pc' = "stopping"
                    /\ k' = k + 1
                    /\ parts' = [stopped |-> Append(parts.stopped, k),
                                 shepherd_ids |-> push_shepherd_id(parts.shepherd_ids, k - 1)]
               ELSE /\ pc' = "stopped"
                    /\ k' = k
                    /\ parts' = [stopped |-> Append(parts.stopped, k),
                                 returned |-> <<SimulationParts(
                                     push_shepherd_id(parts.shepherd_ids, k - 1))>>]
    /\ UNCHANGED <<settings, roster, build, rng, current_epoch, graph_vars, sheep_seen,
                   phase, i, epoch_event, calls, events, begun, created, fed, traced,
                   dummies>>

Next ==
    \/ New
    \/ SimulateEpoch
    \/ WriteBeginEpoch
    \/ WriteEventPanic
    \/ IntroduceTo
    \/ BuildFeedRequest
    \/ BuildFeedReply
    \/ Stop
    \/ StopShepherd

Spec == Init /\ [][Next]_vars

\* ------------------------------------- the driver with dummy shepherds

\* the runs with dummy shepherds: one shepherd and one sheep over eleven
\* items, so that a Feed reaches FeedMax; two shepherds and two sheep over
\* few items, with an item more in some epochs
DummySetups ==
    { [settings |-> [n_tags_bounds |-> <<0, 0>>, n_items_bounds |-> <<0, 0>>,
                     n_item_tags_bounds |-> <<1, 1>>, n_sheep_tags_bounds |-> <<1, 1>>,
                     initial_n_tags_bounds |-> <<2, 2>>,
                     initial_n_items_bounds |-> <<FeedMax + 1, FeedMax + 1>>,
                     initial_n_sheep_bounds |-> <<1, 1>>,
                     average_tags_per_group |-> 1, orphaned_tag_threshold |-> 5],
       roster |-> <<"dummy">>,
       build |-> [sheep_reverse |-> FALSE, item_reverse |-> TRUE, hash_rev |-> FALSE]],
      [settings |-> [n_tags_bounds |-> <<0, 1>>, n_items_bounds |-> <<0, 1>>,
                     n_item_tags_bounds |-> <<1, 1>>, n_sheep_tags_bounds |-> <<1, 2>>,
                     initial_n_tags_bounds |-> <<2, 3>>, initial_n_items_bounds |-> <<1, 2>>,
                     initial_n_sheep_bounds |-> <<2, 2>>,
                     average_tags_per_group |-> 2, orphaned_tag_threshold |-> 2],
       roster |-> <<"dummy", "dummy">>,
       build |-> [sheep_reverse |-> FALSE, item_reverse |-> TRUE, hash_rev |-> TRUE]] }

InitDummy ==
    /\ \E s \in DummySetups :
          /\ settings = s.settings
          /\ roster = s.roster
          /\ build = s.build
    /\ rng \in Seeds
    /\ current_epoch = 0
    /\ nodes = <<>>
    /\ edges = <<>>
    /\ tags = <<>>
    /\ sheep = <<>>
    /\ items = <<>>
    /\ tag_groups = <<>>
    /\ tag_orphans = {}
    /\ sheep_seen = [x \in 1..Len(roster) |-> <<>>]
    /\ pc = "start"
    /\ phase = "new"
    /\ k = 1
    /\ i = 1
    /\ epoch_event = <<>>
    /\ outcome = "ok"
    /\ calls = 0
    /\ events = <<>>
    /\ begun = [x \in 1..Len(roster) |-> <<>>]
    /\ created = {}
    /\ fed = {}
    /\ traced = <<>>
    /\ parts = <<>>
    /\ dummies = [x \in 1..Len(roster) |-> dummy_main]

\* a dummy shepherd process reads the next event from its stdin and runs
\* the arm of its match; the list choose_multiple returns holds the items
\* chosen in one of the orders of the hash set
DummyRead ==
    /\ \E kk \in Shepherds :
          /\ roster[kk] = "dummy"
          /\ dummies[kk].stdin # <<>>
          /\ \E event \in {Head(dummies[kk].stdin)} :
                \E chosen \in (IF dummy_answers(event.kind)
                               THEN {IterOrder(S, rev) :
                                       S \in dummy_choose(dummy_difference(
                                                dummies[kk].items, dummies[kk].sheep_seen,
                                                event.sheep)),
                                       rev \in BOOLEAN}
                               ELSE {<<>>}) :
                    dummies' = [dummies EXCEPT ![kk] = dummy_event(@, event, chosen)]
    /\ UNCHANGED <<settings, roster, build, rng, current_epoch, graph_vars, sheep_seen,
                   pc, phase, k, i, epoch_event, outcome, calls, events, begun, created,
                   fed, traced, parts>>

NextDummy ==
    \/ New
    \/ SimulateEpoch
    \/ WriteBeginEpoch
    \/ IntroduceTo
    \/ BuildFeedRequest
    \/ BuildFeedReply
    \/ DummyRead

DummySpec == InitDummy /\ [][NextDummy]_vars

\* the steps of the driver inside a call: the thread that runs new or
\* simulate_epoch goes on whenever it is not blocked
DriverStep == WriteBeginEpoch \/ IntroduceTo \/ BuildFeedRequest \/ BuildFeedReply

\* the operating system runs both the driver and every shepherd process
\* that has something to read
DummyFairSpec == DummySpec /\ WF_vars(DriverStep) /\ WF_vars(DummyRead)

\* ------------------------------------------------ process_feed on its own

\* the weights that put the item at the distances where the f64 thresholds
\* change: the least draws, the ranges of 10^d, 9^d and 2^-d
FeedWeights == {1, 2, 7, 8, 53, 54, 308, 309, 323, 324, 1074, 1075}

\* graphs over a sheep 0, a tag 1 and an item 2: the path 0 -> 1 -> 2 of
\* weights 3 and 4, alone or beside a direct edge; a direct edge alone; a
\* path of two edges; the path turned round, which leaves the item out of
\* reach
FeedGraphs ==
    {<< <<0, 1, 3>>, <<1, 2, 4>> >>, << <<2, 1, 4>>, <<1, 0, 3>> >>}
    \cup {<< <<0, 1, 3>>, <<1, 2, 4>>, <<0, 2, w>> >> : w \in FeedWeights}
    \cup {<< <<0, 2, w>> >> : w \in FeedWeights}
    \cup {<< <<0, 1, w>>, <<1, 2, 1>> >> : w \in FeedWeights}

\* for every draw of the model, an rng stream whose first draw it is
FirstDraws == {CHOOSE r \in 0..65536 : gen_unit(r).val = c : c \in 0..UnitDen}

InitFeed ==
    /\ settings = <<>>
    /\ roster = <<"echo">>
    /\ build = <<>>
    /\ rng \in FirstDraws
    /\ current_epoch = 0
    /\ nodes = <<"Sheep", "Tag", "Item">>
    /\ edges \in FeedGraphs
    /\ tags = <<1>>
    /\ sheep = <<0>>
    /\ items = <<2>>
    /\ tag_groups = <<>>
    /\ tag_orphans = {1}
    /\ sheep_seen = << <<>> >>
    /\ pc = "feed"
    /\ phase = "feed"
    /\ k = 1
    /\ i = 1
    /\ epoch_event = <<>>
    /\ outcome = "ok"
    /\ calls = 0
    /\ events = <<>>
    /\ begun = << <<>> >>
    /\ created = {}
    /\ fed = {}
    /\ traced = <<>>
    /\ parts = <<>>
    /\ dummies = <<>>

\* process_feed(rng, graph, sheep, Feed(items))
ProcessFeed ==
    /\ pc = "feed"
    /\ \E responses \in {process_feed(rng, edges, sheep[1], items)} :
          /\ rng' = responses.rng
          /\ traced' = responses.log
          /\ events' = << <<k, incorporate_responses(sheep[1], responses.val)>> >>
    /\ pc' = "fed"
    /\ UNCHANGED <<settings, roster, build, current_epoch, graph_vars, sheep_seen,
                   phase, k, i, epoch_event, outcome, calls, begun, created, fed, parts, dummies>>

NextFeed == ProcessFeed

FeedSpec == InitFeed /\ [][NextFeed]_vars

\* ------------------------------------------- add_new_tag_groups on its own

\* the largest tag list and max_groups handed to the call
GroupTagsMax == 4
GroupMaxGroups == 2

\* the calls explored: the graph holds no node, or the tags 0 and 1 in one
\* group, or the tags 0..4 in the groups {0, 1}, {2}, {3, 4}, each group
\* with its edges; the call gets n fresh tags and max_groups g
GroupCalls ==
    {[first |-> f, n |-> n, max_groups |-> g] :
        f \in {0, 2, 5}, n \in 0..GroupTagsMax, g \in 0..GroupMaxGroups}

InitGroup ==
    /\ \E c \in GroupCalls :
          /\ settings = [max_groups |-> c.max_groups,
                         tags |-> [x \in 1..c.n |-> c.first + x - 1]]
          /\ nodes = [x \in 1..(c.first + c.n) |-> "Tag"]
          /\ tags = [x \in 1..(c.first + c.n) |-> x - 1]
          /\ tag_groups = IF c.first = 0 THEN <<>>
                          ELSE IF c.first = 2 THEN << {0, 1} >>
                          ELSE << {0, 1}, {2}, {3, 4} >>
          /\ edges = IF c.first = 0 THEN <<>>
                     ELSE IF c.first = 2 THEN << <<0, 1, 7>>, <<1, 0, 9>> >>
                     ELSE << <<0, 1, 7>>, <<1, 0, 9>>, <<3, 4, 5>>, <<4, 3, 10>> >>
    /\ \E b \in BOOLEAN : build = [hash_rev |-> b]
    /\ roster = <<>>
    /\ rng \in Seeds
    /\ current_epoch = 0
    /\ sheep = <<>>
    /\ items = <<>>
    /\ tag_orphans = {}
    /\ sheep_seen = <<>>
    /\ pc = "group"
    /\ phase = "group"
    /\ k = 1
    /\ i = 1
    /\ epoch_event = <<>>
    /\ outcome = "ok"
    /\ calls = 0
    /\ events = <<>>
    /\ begun = <<>>
    /\ created = {}
    /\ fed = {}
    /\ traced = <<>>
    /\ parts = <<>>
    /\ dummies = <<>>

\* add_new_tag_groups(rng, groups, orphans, max_groups, tags), run twice from
\* the same state: the graph keeps the result of the first run, traced that
\* of the second, whose hash sets iterate in an order of their own
AddNewTagGroups ==
    /\ pc = "group"
    /\ \E rev2 \in BOOLEAN :
        \E run \in {add_new_tag_groups([edges |-> edges, rng |-> rng], tag_groups,
                                       tag_orphans, settings.max_groups, settings.tags,
                                       build.hash_rev)},
           again \in {add_new_tag_groups([edges |-> edges, rng |-> rng], tag_groups,
                                         tag_orphans, settings.max_groups, settings.tags,
                                         rev2)} :
          /\ edges' = run.edges
          /\ rng' = run.rng
          /\ tag_groups' = run.groups
          /\ tag_orphans' = run.orphans
          /\ outcome' = IF run.ok THEN "ok" ELSE "err"
          /\ traced' = <<again>>
    /\ pc' = "grouped"
    /\ UNCHANGED <<settings, roster, build, current_epoch, nodes, tags, sheep, items,
                   sheep_seen, phase, k, i, epoch_event, calls, events, begun, created,
                   fed, parts, dummies>>

\* add_to_tag_groups(rng, groups, orphans, tags) from the same states (it
\* takes no max_groups); traced keeps the addition sets and the candidate
\* pairs of the call
AddToTagGroups ==
    /\ pc = "group"
    /\ \E run \in {add_to_tag_groups([edges |-> edges, rng |-> rng], tag_groups,
                                      tag_orphans, settings.tags, build.hash_rev)} :
          /\ edges' = run.edges
          /\ rng' = run.rng
          /\ tag_groups' = run.groups
          /\ tag_orphans' = run.orphans
          /\ outcome' = IF run.ok THEN "ok" ELSE "err"
          /\ traced' = <<[new_members |-> run.new_members,
                          candidates |-> run.candidates]>>
    /\ pc' = "attached"
    /\ UNCHANGED <<settings, roster, build, current_epoch, nodes, tags, sheep, items,
                   sheep_seen, phase, k, i, epoch_event, calls, events, begun, created,
                   fed, parts, dummies>>

NextGroup == AddNewTagGroups \/ AddToTagGroups

GroupSpec == InitGroup /\ [][NextGroup]_vars

\* ------------------------------------------ connect_extremities on its own

\* the largest tag pool handed to the call
ConnectPoolMax == 3

\* the calls explored: a pool of the tags 0..pool-1 (the first two joined by
\* an edge pair when there are two), one or two source nodes after them, the
\* edge bounds lo..=hi and the direction
ConnectCalls ==
    {[pool |-> p, sources |-> n, lo |-> b[1], hi |-> b[2], reverse |-> rv] :
        p \in 0..ConnectPoolMax, n \in 1..2,
        b \in {<<0, 0>>, <<1, 1>>, <<0, 2>>, <<2, 3>>, <<1, 4>>}, rv \in BOOLEAN}

InitConnect ==
    /\ \E c \in ConnectCalls :
          /\ settings = [lo |-> c.lo, hi |-> c.hi]
          /\ build = [reverse_direction |-> c.reverse]
          /\ nodes = [x \in 1..(c.pool + c.sources) |->
                         IF x <= c.pool THEN "Tag" ELSE "Sheep"]
          /\ tags = [x \in 1..c.pool |-> x - 1]
          /\ sheep = [x \in 1..c.sources |-> c.pool + x - 1]
          /\ edges = IF c.pool >= 2 THEN << <<0, 1, 6>>, <<1, 0, 8>> >> ELSE <<>>
          /\ tag_groups = IF c.pool >= 2 THEN << {0, 1} >> ELSE <<>>
          /\ tag_orphans = {x \in 0..(c.pool - 1) : x >= 2} \cup (IF c.pool = 1 THEN {0} ELSE {})
    /\ roster = <<>>
    /\ rng \in Seeds
    /\ current_epoch = 0
    /\ items = <<>>
    /\ sheep_seen = <<>>
    /\ pc = "connect"
    /\ phase = "connect"
    /\ k = 1
    /\ i = 1
    /\ epoch_event = <<>>
    /\ outcome = "ok"
    /\ calls = 0
    /\ events = <<>>
    /\ begun = <<>>
    /\ created = {}
    /\ fed = {}
    /\ traced = <<>>
    /\ parts = <<>>
    /\ dummies = <<>>

\* connect_extremities(rng, sheep, tags, lo..=hi, reverse_direction); traced
\* keeps the n_edges drawn for each source node
ConnectExtremities ==
    /\ pc = "connect"
    /\ \E con \in {connect_extremities([edges |-> edges, rng |-> rng], sheep, tags,
                                       settings.lo, settings.hi,
                                       build.reverse_direction)} :
          /\ edges' = con.edges
          /\ rng' = con.rng
          /\ traced' = con.drawn
    /\ pc' = "connected"
    /\ UNCHANGED <<settings, roster, build, current_epoch, nodes, tags, sheep, items,
                   tag_groups, tag_orphans, sheep_seen, phase, k, i, epoch_event, outcome,
                   calls, events, begun, created, fed, parts, dummies>>

NextConnect == ConnectExtremities

ConnectSpec == InitConnect /\ [][NextConnect]_vars

\* ------------------------------------------------------------------ types

TypeOK ==
    /\ pc \in {"start", "failed", "idle", "begin", "introduce", "request", "read",
             "panicked", "stopping", "stopped", "stop_failed"}
    /\ current_epoch \in 0..MaxEpochs
    /\ Len(nodes) = Len(tags) + Len(sheep) + Len(items)

\* ---------------------------------------------------------------- claims

IsPrefix(a, b) == Len(a) <= Len(b) /\ \A x \in 1..Len(a) : a[x] = b[x]

\* the events written to a shepherd during the call in progress
OutEvents(kk) == SelectSeq(events, LAMBDA e : e[1] = kk /\ e[2].kind # "Feed")

\* the kind of an event and the epoch or sheep it names
Shape(e) == <<e[2].kind, IF e[2].kind = "BeginEpoch" THEN e[2].id ELSE e[2].sheep>>

Shapes(es) == [x \in 1..Len(es) |-> Shape(es[x])]

\* what a shepherd is to be written during one epoch
ExpectedEpoch ==
    << <<"BeginEpoch", current_epoch>> >>
    \o [x \in 1..Len(sheep) |-> <<"SheepIntroduction", sheep[x]>>]
    \o [x \in 1..(2 * Len(sheep)) |->
          IF x % 2 = 1 THEN <<"FeedRequest", sheep[(x + 1) \div 2]>>
          ELSE <<"Responses", sheep[x \div 2]>>]

\* C1: during simulate_epoch the events written to a shepherd are, in order,
\* one BeginEpoch of the epoch, one SheepIntroduction per sheep, then per
\* sheep one FeedRequest followed by one Responses; what has been written so
\* far is a prefix of that sequence and all of it once the shepherd is done
C1_EpochEventOrder ==
    (phase = "epoch" /\ outcome = "ok") =>
        \A kk \in Shepherds :
            /\ IsPrefix(Shapes(OutEvents(kk)), ExpectedEpoch)
            /\ (pc = "idle" \/ kk < k) => Shapes(OutEvents(kk)) = ExpectedEpoch

\* an epoch is through with two shepherds and two sheep
C1_Witness ==
    /\ phase = "epoch" /\ pc = "idle" /\ outcome = "ok"
    /\ Len(sheep) >= 2 /\ Len(roster) >= 2
    /\ Len(OutEvents(2)) = 1 + 3 * Len(sheep)

\* the FeedRequest, Feed and Responses events of a shepherd in the call
Exchange(kk) ==
    SelectSeq(events,
              LAMBDA e : e[1] = kk /\ e[2].kind \in {"FeedRequest", "Feed", "Responses"})

CountKind(es, kind) == Cardinality({x \in DOMAIN es : es[x][2].kind = kind})

\* C2: per shepherd the exchange is FeedRequest, Feed, Responses over and
\* over: a FeedRequest is written only after the Feed of the one before was
\* read and its Responses written; one request is outstanding exactly while
\* the driver waits for that shepherd's reply, none otherwise
C2_RequestsAlternate ==
    \A kk \in Shepherds :
        /\ \A x \in DOMAIN Exchange(kk) :
              Exchange(kk)[x][2].kind
                  = <<"FeedRequest", "Feed", "Responses">>[((x - 1) % 3) + 1]
        /\ CountKind(Exchange(kk), "FeedRequest") - CountKind(Exchange(kk), "Feed")
              = (IF pc = "read" /\ k = kk THEN 1 ELSE 0)

\* the second sheep's request is outstanding, the first exchange is over
C2_Witness ==
    /\ pc = "read" /\ i = 2
    /\ CountKind(Exchange(k), "Feed") = 1
    /\ CountKind(Exchange(k), "FeedRequest") = 2

\* the events exchanged with the shepherds during the call, hooks left out
ShepherdEvents == SelectSeq(events, LAMBDA e : e[1] # 0)

\* the sheep named by the events of one kind of a shepherd, in order
SheepOf(kk, kind) ==
    Bind(SelectSeq(events, LAMBDA e : e[1] = kk /\ e[2].kind = kind), LAMBDA es :
        [x \in 1..Len(es) |-> es[x][2].sheep])

\* C3: within an epoch the shepherds are handled one after the other in
\* roster order: an event of shepherd kk + 1 comes only after the Responses
\* for the last sheep went to shepherd kk; within a shepherd the sheep are
\* introduced, asked for and answered in sheep-list order
C3_OneShepherdAtATime ==
    (phase = "epoch") =>
        /\ \A x, y \in DOMAIN ShepherdEvents :
              x < y => ShepherdEvents[x][1] <= ShepherdEvents[y][1]
        /\ \A kk \in Shepherds :
              /\ IsPrefix(SheepOf(kk, "SheepIntroduction"), sheep)
              /\ IsPrefix(SheepOf(kk, "FeedRequest"), sheep)
              /\ IsPrefix(SheepOf(kk, "Responses"), sheep)
              /\ (\E x \in DOMAIN events : events[x][1] > kk /\ sheep # <<>>)
                    => SheepOf(kk, "Responses") = sheep

\* the second shepherd is asked for the feed of the second sheep
C3_Witness ==
    /\ phase = "epoch" /\ pc = "read" /\ k = 2 /\ i = 2
    /\ SheepOf(1, "Responses") = sheep
    /\ SheepOf(2, "FeedRequest") = sheep

\* the <<shepherd, sheep, item>> triples the seen-maps hold
SeenTriples ==
    UNION {UNION {{<<kk, s, x>> : x \in sheep_seen[kk][s]} : s \in DOMAIN sheep_seen[kk]}
           : kk \in Shepherds}

\* C4: an item is in a shepherd's seen-set for a sheep exactly when it was in
\* some Feed that shepherd returned for that sheep: the seen-sets are the
\* union of the feeds read so far, so no item is ever lost and no feed shows
\* up under another shepherd or another sheep; a sheep has an entry exactly
\* when a feed was read for it
C4_SeenIsUnionOfFeeds ==
    /\ SeenTriples = fed
    /\ \A kk \in Shepherds :
          /\ DOMAIN sheep_seen[kk] \subseteq Range(sheep)
          /\ \A t \in fed : t[1] = kk => t[2] \in DOMAIN sheep_seen[kk]

\* after two epochs a seen-set holds more than the last feed named, and two
\* shepherds hold different sets for the same sheep
C4_Witness ==
    /\ calls = 2 /\ pc = "idle" /\ Len(roster) >= 2
    /\ \E s \in DOMAIN sheep_seen[1] \cap DOMAIN sheep_seen[2] :
          /\ Cardinality(sheep_seen[1][s]) >= 3
          /\ sheep_seen[2][s] # sheep_seen[1][s]
          /\ sheep_seen[2][s] # {}

\* the number of groups a tag is in, plus one when it is an orphan
Memberships(t) ==
    Cardinality({x \in DOMAIN tag_groups : t \in tag_groups[x]})
    + (IF t \in tag_orphans THEN 1 ELSE 0)

\* C5: every tag of the population is in exactly one tag group or in the
\* orphan set, and the groups and the orphan set hold nothing but tags of
\* the population
C5_TagPartition ==
    /\ \A t \in Range(tags) : Memberships(t) = 1
    /\ tag_orphans \subseteq Range(tags)
    /\ \A x \in DOMAIN tag_groups : tag_groups[x] \subseteq Range(tags)

\* an epoch left a tag it created among the orphans, next to the groups
C5_Witness ==
    /\ phase = "epoch" /\ outcome = "ok" /\ pc = "idle"
    /\ tag_orphans \cap created # {}
    /\ \E x \in DOMAIN tag_groups : Cardinality(tag_groups[x]) >= 2

\* the nodes of a kind the call in progress created, in creation order
CreatedOf(kind) == SortedSeq({n \in created : nodes[n + 1] = kind})

\* the number of BeginEpoch events of a shepherd that announce an item
Announcements(kk, it) ==
    Cardinality({x \in DOMAIN begun[kk] : it \in Range(begun[kk][x].items)})

\* C6: the BeginEpoch a shepherd is written in an epoch carries exactly the
\* tag and item nodes that simulate_epoch call created, the BeginEpoch of
\* epoch 0 the whole populations; so every item is announced to a shepherd
\* in exactly one BeginEpoch once the shepherd was written this call's event
\* (and an item of this call in none before that)
C6_BeginEpochCarriesNewNodes ==
    (outcome = "ok" /\ pc # "start") =>
        \A kk \in Shepherds :
            /\ \A x \in DOMAIN begun[kk] : begun[kk][x].id = x - 1
            /\ Len(begun[kk]) \in {current_epoch, current_epoch + 1}
            /\ Len(begun[kk]) = current_epoch + 1 =>
                  /\ begun[kk][Len(begun[kk])].tags = CreatedOf("Tag")
                  /\ begun[kk][Len(begun[kk])].items = CreatedOf("Item")
                  /\ phase = "new" => /\ begun[kk][1].tags = tags
                                      /\ begun[kk][1].items = items
                  /\ \A it \in Range(items) : Announcements(kk, it) = 1
            /\ Len(begun[kk]) = current_epoch =>
                  \A it \in Range(items) :
                      Announcements(kk, it) = (IF it \in created THEN 0 ELSE 1)

\* the second epoch created a tag and an item and announced them, the
\* populations being larger than that
C6_Witness ==
    /\ phase = "epoch" /\ outcome = "ok" /\ pc = "idle" /\ current_epoch = 2
    /\ CreatedOf("Tag") # <<>> /\ CreatedOf("Item") # <<>>
    /\ begun[1][3].items = CreatedOf("Item")
    /\ Len(items) > Len(CreatedOf("Item"))

\* the weights of the edges a -> b
Weights(a, b) == {e[3] : e \in {x \in Range(edges) : x[1] = a /\ x[2] = b}}

\* C7: every tag group is a clique: any two distinct tags a, b of a group
\* are joined by an edge a -> b and an edge b -> a of weight 5..10, whenever
\* each of them joined the group
C7_GroupsAreCliques ==
    \A x \in DOMAIN tag_groups :
        \A a, b \in tag_groups[x] :
            a # b => Weights(a, b) \cap (5..10) # {}

\* a tag created in this epoch sits in a group with a tag of an earlier call
C7_Witness ==
    /\ phase = "epoch" /\ outcome = "ok"
    /\ \E x \in DOMAIN tag_groups :
          /\ tag_groups[x] \cap created # {}
          /\ tag_groups[x] \ created # {}

\* the index of the group of a tag, 0 for a tag in no group
GroupOf(t) ==
    IF \E x \in DOMAIN tag_groups : t \in tag_groups[x]
    THEN CHOOSE x \in DOMAIN tag_groups : t \in tag_groups[x]
    ELSE 0

KindOf(n) == nodes[n + 1]

\* C8: an edge between two tags of one group weighs 5..10, an edge between
\* tags of different groups 1..5, an edge between a sheep or an item and a
\* tag 1..10; no edge weighs 0, and there are no edges of another sort
C8_EdgeWeightRanges ==
    \A e \in Range(edges) :
        /\ e[3] # 0
        /\ e[1] \in 0..(Len(nodes) - 1) /\ e[2] \in 0..(Len(nodes) - 1)
        /\ IF KindOf(e[1]) = "Tag" /\ KindOf(e[2]) = "Tag"
           THEN /\ GroupOf(e[1]) # 0 /\ GroupOf(e[2]) # 0
                /\ IF GroupOf(e[1]) = GroupOf(e[2])
                   THEN e[3] \in 5..10
                   ELSE e[3] \in 1..5
           ELSE /\ "Tag" \in {KindOf(e[1]), KindOf(e[2])}
                /\ e[3] \in 1..10

\* the graph holds an edge between tags of different groups, an edge inside
\* a group and an edge of a sheep
C8_Witness ==
    /\ \E e \in Range(edges) :
          /\ KindOf(e[1]) = "Tag" /\ KindOf(e[2]) = "Tag"
          /\ GroupOf(e[1]) # GroupOf(e[2])
    /\ \E e \in Range(edges) :
          /\ KindOf(e[1]) = "Tag" /\ KindOf(e[2]) = "Tag"
          /\ GroupOf(e[1]) = GroupOf(e[2])
    /\ \E e \in Range(edges) : KindOf(e[1]) = "Sheep"

\* the least of a non-empty set of numbers
Least(S) == CHOOSE m \in S : \A x \in S : m <= x

\* d maps a node to the least weight of a walk of at most some number of
\* edges that ends at it, -1 when there is none; one more edge is allowed
\* until nothing changes, n times at most
RECURSIVE WalkMin(_, _, _)
WalkMin(es, d0, n) ==
    Bind(d0, LAMBDA d :
        IF n = 0 THEN d
        ELSE Bind([v \in DOMAIN d |->
                     Bind({d[e[1]] + e[3] :
                             e \in {x \in Range(es) : x[2] = v /\ d[x[1]] # -1}}
                          \cup (IF d[v] # -1 THEN {d[v]} ELSE {}),
                          LAMBDA c : IF c = {} THEN -1 ELSE Least(c))],
                  LAMBDA d2 : IF d2 = d THEN d ELSE WalkMin(es, d2, n - 1)))

\* the least weight sums of the directed paths from a to every node
distances_from(es, a) ==
    WalkMin(es, [v \in 0..Len(nodes) |-> IF v = a THEN 0 ELSE -1], Len(nodes))

\* shortest_path_distance(a, b): <<>> when no directed path leads from a to
\* b, else the least weight sum over the directed paths from a to b
shortest_path_distance(es, a, b) ==
    Bind(distances_from(es, a), LAMBDA d : IF d[b] = -1 THEN <<>> ELSE <<d[b]>>)

\* the weight sum of a path measure, <<>> when there is none
WeightOf(m) == IF m = <<>> THEN <<>> ELSE <<m[1][1]>>

\* a call has just built the graph, no shepherd has been written yet
GraphBuilt == pc = "begin" /\ k = 1

\* process_feed has just returned, its Responses were the last event
JustRated == events # <<>> /\ events[Len(events)][2].kind = "Responses"

\* C9: the distance process_feed works with is absent exactly when no
\* directed path leads from the sheep to the item along the stored edge
\* directions, and is otherwise the least weight sum over the directed paths
\* from the sheep to the item: for every sheep and item of a graph a call
\* has built, and for every line process_feed traces
C9_DistanceIsDirectedMinimum ==
    /\ GraphBuilt =>
          \A s \in Range(sheep) :
              Bind(distances_from(edges, s), LAMBDA d :
                  \A it \in Range(items) :
                      WeightOf(measure(edges, s, it))
                          = (IF d[it] = -1 THEN <<>> ELSE <<d[it]>>))
    /\ JustRated =>
          \A x \in DOMAIN traced :
              traced[x].distance
                  = shortest_path_distance(edges, traced[x].sheep, traced[x].item)

\* an undirected path between two nodes, whatever the edge directions
Connected(a, b) ==
    shortest_path_distance(edges \o [x \in DOMAIN edges |->
                                        <<edges[x][2], edges[x][1], edges[x][3]>>],
                           a, b) # <<>>

\* process_feed traced an item it reached over three edges or more at a
\* distance that no path of fewer edges has, and an item of the graph that is
\* joined to the sheep but not along the edge directions
C9_Witness ==
    /\ \E x \in DOMAIN traced :
          /\ traced[x].distance # <<>>
          /\ measure(edges, traced[x].sheep, traced[x].item)[1][2] >= 3
    /\ \E s \in Range(sheep) : \E it \in Range(items) :
          /\ measure(edges, s, it) = <<>>
          /\ Connected(s, it)

\* the nodes a directed path leads to from the nodes of S
RECURSIVE Reach(_, _)
Reach(es, S0) ==
    Bind(S0, LAMBDA S :
        Bind(S \cup {e[2] : e \in {x \in Range(es) : x[1] \in S}}, LAMBDA T :
            IF T = S THEN S ELSE Reach(es, T)))

\* C10: a response carries a hop count exactly when a directed path leads
\* from the sheep to the item, and an item no directed path leads to is rated
\* Negative whatever the rng stream holds: in the Responses process_feed
\* returns, and for every sheep and item of a graph a call has built, under
\* every seed
C10_NoPathIsNegative ==
    /\ JustRated =>
          Bind(<<events[Len(events)][2].responses,
                 Reach(edges, {events[Len(events)][2].sheep})>>, LAMBDA rr :
              \A x \in DOMAIN rr[1] :
                  /\ rr[1][x][3] # <<>> <=> rr[1][x][1] \in rr[2]
                  /\ rr[1][x][1] \notin rr[2] => rr[1][x][2] = "Negative")
    /\ GraphBuilt =>
          \A s \in Range(sheep) :
              Bind(Reach(edges, {s}), LAMBDA reached :
                  \A it \in Range(items) : \A r \in Seeds \cup {rng} :
                      Bind(respond(r, edges, s, it).val, LAMBDA resp :
                          /\ resp[3] # <<>> <=> it \in reached
                          /\ it \notin reached => resp[2] = "Negative"))

\* one Responses event rates an item of the graph no path leads to and an
\* item a path leads to
C10_Witness ==
    \E x \in DOMAIN events :
        /\ events[x][2].kind = "Responses"
        /\ \E r \in Range(events[x][2].responses) :
              r[1] \in Range(items) /\ r[3] = <<>> /\ r[2] = "Negative"
        /\ \E r \in Range(events[x][2].responses) : r[3] # <<>>

\* the real numbers 2^-d and (9/10)^d
pow2_neg(d) == f64(1, 0, d, 0, 0)

pow_nine_tenths(d) == f64(1, d, 0, d, 0)

\* the rating the response rule gives the draw c at distance d
RuleRating(c, d) ==
    IF f64_le(draw_value(c), pow2_neg(d)) THEN "Positive"
    ELSE IF f64_le(draw_value(c), pow_nine_tenths(d)) THEN "Neutral"
    ELSE "Negative"

\* the fewest edges of a directed path from a to b of weight sum dist
FewestEdges(es, a, b, dist) ==
    Least({n \in 0..Len(nodes) :
              WalkMin(es, [v \in 0..Len(nodes) |-> IF v = a THEN 0 ELSE -1], n)[b] = dist})

\* C11: for a reachable item at distance d and draw c, process_feed answers
\* Positive iff c <= 2^-d, Neutral iff 2^-d < c <= (9/10)^d, Negative
\* otherwise, and reports as hop count the fewest edges among the paths of
\* least weight
C11_ResponseRule ==
    JustRated =>
        \A x \in DOMAIN traced :
            traced[x].distance # <<>> =>
                Bind(events[Len(events)][2].responses[x], LAMBDA resp :
                    /\ resp[2] = RuleRating(traced[x].draw[1], traced[x].distance[1])
                    /\ resp[3] = <<FewestEdges(edges, traced[x].sheep, traced[x].item,
                                               traced[x].distance[1])>>)

\* C12: at every integer distance d >= 0 the thresholds of the library are
\* ordered, p_positive(d) <= p_neutral(d), and p_positive does not grow,
\* p_positive(d + 1) <= p_positive(d)
C12_ThresholdsOrdered ==
    \A x \in DOMAIN traced :
        traced[x].distance # <<>> =>
            Bind(traced[x].distance[1], LAMBDA d :
                /\ f64_le(p_positive(d), p_neutral(d))
                /\ f64_le(p_positive(d + 1), p_positive(d)))

\* a sequence of numbers that grows by one from entry to entry
Consecutive(q) == \A x \in 1..(Len(q) - 1) : q[x + 1] = q[x] + 1

\* C13: create_nodes(kind, n) adds exactly n nodes of the kind and returns
\* the n integers that follow the largest id so far: the ids of the graph
\* are 0..count - 1, every id a population list holds names a node of the
\* list's kind, and the ids one call returned for a kind are consecutive,
\* the first batch of a call starting at the node count before the call
C13_CreateNodes ==
    /\ Range(tags) \cup Range(sheep) \cup Range(items) = 0..(Len(nodes) - 1)
    /\ \A x \in DOMAIN tags : tags[x] < Len(nodes) /\ KindOf(tags[x]) = "Tag"
    /\ \A x \in DOMAIN sheep : sheep[x] < Len(nodes) /\ KindOf(sheep[x]) = "Sheep"
    /\ \A x \in DOMAIN items : items[x] < Len(nodes) /\ KindOf(items[x]) = "Item"
    /\ (outcome = "ok" /\ pc \notin {"start", "feed", "fed"}) =>
          /\ Consecutive(epoch_event.tags) /\ Consecutive(epoch_event.items)
          /\ Len(epoch_event.tags) + Len(epoch_event.items)
                + (IF phase = "new" THEN Len(sheep) ELSE 0) = Cardinality(created)
          /\ epoch_event.tags # <<>> =>
                epoch_event.tags[1] = Len(nodes) - Cardinality(created)
          /\ epoch_event.items # <<>> =>
                epoch_event.items[Len(epoch_event.items)] = Len(nodes) - 1

\* an epoch created two tags and an item on top of the seeded graph
C13_Witness ==
    /\ phase = "epoch" /\ outcome = "ok"
    /\ Len(epoch_event.tags) = 2 /\ Len(epoch_event.items) >= 1
    /\ epoch_event.tags[1] > 0

\* the tags an edge of either direction joins to a node
AdjacentTags(n) ==
    {t \in Range(tags) :
        \E e \in Range(edges) : (e[1] = n /\ e[2] = t) \/ (e[1] = t /\ e[2] = n)}

\* C14: a tag is among associated_tags(s) of a sheep or item s exactly when
\* an edge of either direction joins s and the tag, and these are the tags
\* the SheepIntroduction event of s carries
C14_AssociatedTags ==
    /\ \A x \in DOMAIN events :
          events[x][2].kind = "SheepIntroduction" =>
              Range(events[x][2].associated_tags) = AdjacentTags(events[x][2].sheep)
    /\ GraphBuilt =>
          \A n \in Range(sheep) \cup Range(items) :
              Range(associated_tags(edges, n)) = AdjacentTags(n)

\* a sheep is introduced with the two tags whose edges lead to it: no edge
\* leaves the sheep
C14_Witness ==
    \E x \in DOMAIN events :
        /\ events[x][2].kind = "SheepIntroduction"
        /\ Len(events[x][2].associated_tags) = 2
        /\ \A e \in Range(edges) : e[1] # events[x][2].sheep

\* every population bound of the settings is (0, 0)
EmptyPopulation ==
    \A b \in {settings.initial_n_tags_bounds, settings.initial_n_sheep_bounds,
              settings.initial_n_items_bounds, settings.n_tags_bounds,
              settings.n_items_bounds} : b = <<0, 0>>

\* C15: with every population bound (0, 0), new returns Ok: the graph has no
\* node, the BeginEpoch event has empty tag and item lists, and no shepherd
\* is sent a SheepIntroduction
C15_EmptyPopulationNew ==
    (EmptyPopulation /\ pc # "start") =>
        /\ outcome = "ok"
        /\ nodes = <<>>
        /\ epoch_event = BeginEpoch(0, <<>>, <<>>)
        /\ \A x \in DOMAIN events : events[x][2].kind # "SheepIntroduction"

CountOf(es, e) == Cardinality({x \in DOMAIN es : es[x] = e})

\* C17: two runs of add_new_tag_groups from the same state with the same
\* rng seed, tag list and max_groups give the same groups, the same orphan
\* set and the same multiset of weighted edges, whatever the order in which
\* the hash sets of the groups iterate
C17_GroupingDeterministic ==
    (pc = "grouped" /\ outcome = "ok") =>
        /\ traced[1].ok
        /\ traced[1].groups = tag_groups
        /\ traced[1].orphans = tag_orphans
        /\ \A e \in Range(edges) \cup Range(traced[1].edges) :
              CountOf(edges, e) = CountOf(traced[1].edges, e)

\* the members of the groups from position n + 1 on
MembersFrom(gs, n) == UNION {gs[x] : x \in (n + 1)..Len(gs)}

\* C18: in a successful simulate_epoch, with att the groups and orphans
\* after the new tags were attached: if att has at least
\* orphaned_tag_threshold orphans, every one of them ends in a group
\* appended by this call or in the orphan set, which holds nothing else, the
\* groups that existed keep their members, and the appended groups number
\* orphans / average_tags_per_group unless the orphans ran out first; with
\* fewer orphans no group is appended and the orphan set stays as it was
C18_OrphanDrain ==
    [][(pc = "idle" /\ calls' # calls /\ outcome' = "ok") =>
          Bind(attach_tags(settings, rng), LAMBDA att :
            /\ \A x \in DOMAIN att.groups : tag_groups'[x] = att.groups[x]
            /\ IF Cardinality(att.orphans) >= settings.orphaned_tag_threshold
               THEN /\ tag_orphans' \subseteq att.orphans
                    /\ att.orphans \subseteq
                          MembersFrom(tag_groups', Len(att.groups)) \cup tag_orphans'
                    /\ Len(tag_groups') - Len(att.groups)
                          <= Cardinality(att.orphans) \div settings.average_tags_per_group
                    /\ \/ Len(tag_groups') - Len(att.groups)
                            = Cardinality(att.orphans) \div settings.average_tags_per_group
                       \/ tag_orphans' = {}
               ELSE /\ Len(tag_groups') = Len(att.groups)
                    /\ tag_orphans' = att.orphans)]_vars

\* the first simulate_epoch has appended a group to those of the seeding,
\* which are at most as many as initial tags / average_tags_per_group
C18_Witness ==
    /\ phase = "epoch" /\ calls = 1 /\ outcome = "ok" /\ pc = "begin"
    /\ Len(tag_groups) >
          (Len(tags) - Len(epoch_event.tags)) \div settings.average_tags_per_group
    /\ MembersFrom(tag_groups,
                   (Len(tags) - Len(epoch_event.tags))
                       \div settings.average_tags_per_group) # {}

\* C19: tag groups only grow.  In every step the group list is at least as
\* long as before, every group holds at its position all the tags it held,
\* and a tag that was in a group is neither in another group nor an orphan
C19_GroupsOnlyGrow ==
    [][/\ Len(tag_groups') >= Len(tag_groups)
       /\ \A x \in DOMAIN tag_groups :
             /\ tag_groups[x] \subseteq tag_groups'[x]
             /\ tag_groups[x] \cap tag_orphans' = {}
             /\ \A y \in DOMAIN tag_groups' :
                   y # x => tag_groups[x] \cap tag_groups'[y] = {}]_vars

\* a simulate_epoch call has put a tag it created into a group that holds
\* a tag of the seeding
C19_Witness ==
    /\ calls >= 1 /\ outcome = "ok" /\ pc = "idle"
    /\ \E x \in DOMAIN tag_groups :
          \E a \in tag_groups[x], b \in tag_groups[x] :
              /\ a < Len(begun[1][1].tags)
              /\ b >= Len(begun[1][1].tags) + Len(sheep) + Len(begun[1][1].items)

\* C20: current_epoch is 0 after new and grows by exactly 1 in every
\* successful simulate_epoch, and in no other step; the BeginEpoch events a
\* shepherd has received carry the ids 0, 1, 2, ... in this order; in the
\* seeding epoch a shepherd is sent BeginEpoch and SheepIntroduction events
\* only
C20_EpochCounter ==
    [][/\ pc = "start" => current_epoch' = 0
       /\ IF pc = "idle" /\ calls' # calls /\ outcome' = "ok"
          THEN current_epoch' = current_epoch + 1
          ELSE current_epoch' = current_epoch
       /\ \A s \in DOMAIN begun' :
             \A x \in DOMAIN begun'[s] : begun'[s][x].id = x - 1
       /\ phase' = "new" =>
             \A x \in DOMAIN events' :
                 events'[x][1] # 0 =>
                     events'[x][2].kind \in {"BeginEpoch", "SheepIntroduction"}]_vars

\* the second simulate_epoch has sent its BeginEpoch, the third a shepherd
\* receives, and the counter stands at 2
C20_Witness ==
    /\ current_epoch = 2
    /\ \E s \in DOMAIN begun : Len(begun[s]) = 3 /\ begun[s][3].id = 2

\* C21: a simulate_epoch that returns Err leaves current_epoch as it was,
\* has sent no event to any shepherd and fired no hook, and leaves every
\* tag node of the graph in the tag population and in exactly one group or
\* the orphan set
C21_FailedEpochConsistent ==
    [][(pc = "idle" /\ calls' # calls /\ outcome' = "err") =>
          /\ current_epoch' = current_epoch
          /\ events' = <<>>
          /\ begun' = begun
          /\ sheep_seen' = sheep_seen
          /\ \A n \in 0..(Len(nodes') - 1) :
                nodes'[n + 1] = "Tag" =>
                    /\ n \in Range(tags')
                    /\ Cardinality({x \in DOMAIN tag_groups' : n \in tag_groups'[x]})
                         + (IF n \in tag_orphans' THEN 1 ELSE 0) = 1]_vars

\* a simulate_epoch has failed after it created a tag and put it in a group
C21_Witness ==
    /\ outcome = "err" /\ phase = "epoch" /\ pc = "idle"
    /\ \E n \in created : KindOf(n) = "Tag" /\ \E x \in DOMAIN tag_groups : n \in tag_groups[x]

\* C22: when a write of an event to a shepherd fails during simulate_epoch,
\* simulate_epoch returns an error value to its caller: the call is over
\* with outcome err, and the process has not panicked
C22_WriteFailureReturned ==
    [][(phase = "epoch" /\ pc \in {"begin", "introduce", "request"}
          /\ ~write_event_ok(roster[k], phase)) =>
             (pc' = "idle" /\ outcome' = "err")]_vars

\* C23, the part both orders share: a successful simulate_epoch step fires
\* new_epoch_hook with the incremented counter as the first and only event
\* of the call so far, before any BeginEpoch of the epoch, and no later
\* step fires it again; a feed step yields Feed read, feed_generation_hook,
\* feed_rated_hook, Responses sent, in this order and for the same sheep
HooksInOrder ==
    /\ (pc = "idle" /\ calls' # calls /\ outcome' = "ok") =>
          /\ Len(events') = 1
          /\ events'[1] = <<0, [kind |-> "new_epoch_hook", id |-> current_epoch + 1,
                                tags |-> events'[1][2].tags,
                                items |-> events'[1][2].items]>>
          /\ current_epoch' = current_epoch + 1
          /\ begun' = begun
    /\ \A x \in DOMAIN events' : x > 1 => events'[x][2].kind # "new_epoch_hook"
    /\ pc = "read" =>
          /\ Len(events') = Len(events) + 4
          /\ \A x \in DOMAIN events : events'[x] = events[x]
          /\ events'[Len(events) + 1][1] = k
          /\ events'[Len(events) + 1][2].kind = "Feed"
          /\ events'[Len(events) + 2][2].kind = "feed_generation_hook"
          /\ events'[Len(events) + 2][2].sheep = sheep[i]
          /\ events'[Len(events) + 2][2].feed = events'[Len(events) + 1][2].items
          /\ events'[Len(events) + 3][2].kind = "feed_rated_hook"
          /\ events'[Len(events) + 3][2].sheep = sheep[i]
          /\ events'[Len(events) + 4][1] = k
          /\ events'[Len(events) + 4][2].kind = "Responses"
          /\ events'[Len(events) + 4][2].sheep = sheep[i]
          /\ events'[Len(events) + 4][2].responses
                = events'[Len(events) + 3][2].responses
          /\ events'[Len(events) + 3][2].at
                = hook_view(sheep_seen'[k], sheep[i], rng')
          /\ sheep_seen'[k][sheep[i]]
                = hook_view(sheep_seen[k], sheep[i], rng).seen
                    \cup Range(events'[Len(events) + 1][2].items)

\* C23 as stated: new_epoch_hook fires once, after the increment and before
\* any BeginEpoch; for every (shepherd, sheep) the order is Feed read,
\* seen-map union, responses computed, feed_generation_hook,
\* feed_rated_hook, Responses sent: feed_generation_hook fires when the
\* seen-map holds the feed and the rng is past the response model
C23_HookOrderStated ==
    [][/\ HooksInOrder
       /\ pc = "read" =>
             events'[Len(events) + 2][2].at = hook_view(sheep_seen'[k], sheep[i], rng')]_vars

\* C23, amended: new_epoch_hook fires once, after the increment and before
\* any BeginEpoch; for every (shepherd, sheep) the order is Feed read,
\* feed_generation_hook, seen-map union, responses computed,
\* feed_rated_hook, Responses sent: feed_generation_hook fires when the
\* seen-map and the rng are still as they were when the Feed was read
C23_HookOrder ==
    [][/\ HooksInOrder
       /\ pc = "read" =>
             events'[Len(events) + 2][2].at = hook_view(sheep_seen[k], sheep[i], rng)]_vars

\* a feed with an item the sheep had not seen was rated: the seen-map and
\* the rng differ between the two hooks
C23_Witness ==
    \E x \in DOMAIN events :
        /\ events[x][2].kind = "feed_generation_hook"
        /\ events[x][2].feed # <<>>
        /\ ~(Range(events[x][2].feed) \subseteq events[x][2].at.seen)
        /\ events[x + 1][2].kind = "feed_rated_hook"
        /\ Range(events[x][2].feed) \subseteq events[x + 1][2].at.seen
        /\ events[x][2].at.rng # events[x + 1][2].at.rng

\* C24: the Responses event answers the Feed read before it item by item:
\* as many responses as feed items, the k-th naming the k-th item of the
\* feed, repeated ids and ids of no item included, and it is sent for the
\* sheep of the FeedRequest; a shepherd that always answers with the first
\* item ever introduced is sent Responses of length 1 only, and its
\* seen-map holds exactly that item for every sheep it was asked about
C24_ResponsesFollowFeed ==
    /\ \A x \in DOMAIN events :
          events[x][2].kind = "Responses" =>
              /\ x > 4
              /\ events[x - 4] = <<events[x][1], FeedRequest(events[x][2].sheep)>>
              /\ events[x - 3][1] = events[x][1]
              /\ events[x - 3][2].kind = "Feed"
              /\ Len(events[x][2].responses) = Len(events[x - 3][2].items)
              /\ \A y \in DOMAIN events[x][2].responses :
                    events[x][2].responses[y][1] = events[x - 3][2].items[y]
              /\ roster[events[x][1]] = "echo" => Len(events[x][2].responses) = 1
    /\ \A s \in DOMAIN roster :
          roster[s] = "echo" =>
              \A n \in DOMAIN sheep_seen[s] : sheep_seen[s][n] = {items[1]}

\* a feed naming an item twice around an id of no node was answered with
\* three responses, and an echo shepherd has been asked in two epochs
C24_Witness ==
    /\ \E x \in DOMAIN events :
          /\ events[x][2].kind = "Responses"
          /\ Len(events[x][2].responses) = 3
          /\ events[x][2].responses[1][1] = events[x][2].responses[3][1]
          /\ events[x][2].responses[2][1] = Len(nodes)
    /\ calls = 2 /\ pc = "idle" /\ outcome = "ok"
    /\ \E s \in DOMAIN roster :
          roster[s] = "echo" /\ DOMAIN sheep_seen[s] = Range(sheep) /\ sheep # <<>>

AddedEdges == SubSeq(edges', Len(edges) + 1, Len(edges'))

\* the edges among es that join the source node n and a tag, whichever way
EdgesOf(es, n) ==
    {x \in DOMAIN es : (es[x][1] = n /\ es[x][2] \in Range(tags))
                        \/ (es[x][2] = n /\ es[x][1] \in Range(tags))}

\* the tag at the other end of an edge of the source node n
TagEnd(e, n) == IF e[1] = n THEN e[2] ELSE e[1]

C27_OnlySourceTagEdges ==
    [][pc = "connect" =>
          /\ IsPrefix(edges, edges')
          /\ \A x \in DOMAIN AddedEdges :
                /\ IF build.reverse_direction
                   THEN AddedEdges[x][1] \in Range(tags) /\ AddedEdges[x][2] \in Range(sheep)
                   ELSE AddedEdges[x][1] \in Range(sheep) /\ AddedEdges[x][2] \in Range(tags)
                /\ \A y \in DOMAIN AddedEdges :
                      (AddedEdges[x][1] = AddedEdges[y][1]
                         /\ AddedEdges[x][2] = AddedEdges[y][2]) => x = y]_vars

\* a call with reverse true has added three edges on top of the two of the
\* graph, each from a tag to a source node
C27_Witness ==
    /\ pc = "connected" /\ build.reverse_direction
    /\ Len(edges) >= 5 /\ edges[1] = <<0, 1, 6>>
    /\ edges[5][1] \in Range(tags) /\ edges[5][2] \in Range(sheep)

\* the number of edges of the list es from a to b
EdgeCount(es, a, b) == Cardinality({x \in DOMAIN es : es[x][1] = a /\ es[x][2] = b})

\* C28: add_new_tag_groups adds intra-group edges inside the groups it
\* forms in the call only: the number of edges between two tags that were
\* together in a group before the call is the same after the call
C28_OldGroupsKeepEdgeCount ==
    [][(pc = "group" /\ pc' = "grouped") =>
          \A x \in DOMAIN tag_groups :
              \A a \in tag_groups[x], b \in tag_groups[x] :
                  EdgeCount(edges', a, b) = EdgeCount(edges, a, b)]_vars

\* the pairs (a, b) of a tag a of the addition set of group x and a tag b
\* of the group y as it was, over the positions x < y <= n of the group list
PairsUpTo(new_members, groups, n) ==
    {p \in Range(tags) \X Range(tags) :
        \E x \in DOMAIN new_members, y \in DOMAIN groups :
            x < y /\ y <= n /\ p[1] \in new_members[x] /\ p[2] \in groups[y]}

\* the edges a step added between tags that end in different groups, or of
\* which one ends in no group
AddedAcrossGroups ==
    {x \in DOMAIN AddedEdges :
        ~\E g \in DOMAIN tag_groups' :
            AddedEdges[x][1] \in tag_groups'[g] /\ AddedEdges[x][2] \in tag_groups'[g]}

\* C29 as stated: in add_to_tag_groups with k existing groups the candidate
\* pairs for an inter-group edge pair are the pairs (a, b) of a new tag a
\* assigned to group i and a tag b that was in group j, for every
\* i < j < k, also when the new tags ran out before every group got its
\* addition set
C29_CandidatesOverAllGroups ==
    [][(pc = "group" /\ pc' = "attached") =>
          Range(traced'[1].candidates)
              = PairsUpTo(traced'[1].new_members, tag_groups, Len(tag_groups))]_vars

\* what add_to_tag_groups does instead: with m <= k the number of addition
\* sets the call built (m < k when the new tags ran out), the candidate
\* pairs are those over i < j < m, and every edge the call adds across
\* groups joins a candidate pair
CandidatesOverAdditionSets ==
    [][(pc = "group" /\ pc' = "attached") =>
          /\ Len(traced'[1].new_members) <= Len(tag_groups)
          /\ Range(traced'[1].candidates)
                = PairsUpTo(traced'[1].new_members, tag_groups,
                            Len(traced'[1].new_members))
          /\ \A x \in AddedAcrossGroups :
                \/ <<AddedEdges[x][1], AddedEdges[x][2]>> \in Range(traced'[1].candidates)
                \/ <<AddedEdges[x][2], AddedEdges[x][1]>> \in Range(traced'[1].candidates)]_vars

\* three groups were there and the new tags ran out after two addition
\* sets: a tag added to the first group is paired with tag 2 of the second,
\* and the tags 3 and 4 of the third group are in no candidate pair
CandidatesRanOut ==
    /\ pc = "attached" /\ Len(tag_groups) = 3
    /\ Len(traced[1].new_members) = 2
    /\ \E a \in traced[1].new_members[1] :
          <<a, 2>> \in Range(traced[1].candidates)
    /\ \A p \in Range(traced[1].candidates) : p[2] \notin {3, 4}

\* the number of tags in the first n sets of the list gs
RECURSIVE SizesUpTo(_, _)
SizesUpTo(gs, n) == IF n = 0 THEN 0 ELSE Cardinality(gs[n]) + SizesUpTo(gs, n - 1)

\* the sets gs and the set added of new orphans distribute the tag list ts:
\* the sets are pairwise disjoint, every tag of ts is in exactly one of the
\* sets or in added, the sizes add up to the length of ts, and no set
\* follows the one that took the last tags
Distributes(gs, added, ts) ==
    /\ \A x \in DOMAIN gs, y \in DOMAIN gs : x # y => gs[x] \cap gs[y] = {}
    /\ \A x \in DOMAIN gs : gs[x] \subseteq Range(ts) /\ gs[x] \cap added = {}
    /\ added \subseteq Range(ts)
    /\ \A t \in Range(ts) : t \in added \/ \E x \in DOMAIN gs : t \in gs[x]
    /\ SizesUpTo(gs, Len(gs)) + Cardinality(added) = Len(ts)
    /\ \A x \in DOMAIN gs : x < Len(gs) => SizesUpTo(gs, x) < Len(ts)

\* C30: one call of add_new_tag_groups on a list T of distinct tags appends
\* at most max_groups groups, which with the tags added to the orphan set
\* distribute T (pairwise disjoint, every tag in exactly one of them, sizes
\* adding up to |T|, no group after the one that took the last tags);
\* add_to_tag_groups distributes its tags the same way over at most one
\* addition set per existing group, so with no existing group every new
\* tag becomes an orphan
C30_TagsDistributed ==
    [][/\ (pc = "group" /\ pc' = "grouped") =>
            /\ Len(tag_groups') <= Len(tag_groups) + settings.max_groups
            /\ SubSeq(tag_groups', 1, Len(tag_groups)) = tag_groups
            /\ Distributes(SubSeq(tag_groups', Len(tag_groups) + 1, Len(tag_groups')),
                           tag_orphans' \ tag_orphans, settings.tags)
       /\ (pc = "group" /\ pc' = "attached") =>
            /\ Len(traced'[1].new_members) <= Len(tag_groups)
            /\ Len(tag_groups') = Len(tag_groups)
            /\ \A x \in DOMAIN tag_groups :
                  tag_groups'[x] = tag_groups[x]
                      \cup (IF x <= Len(traced'[1].new_members)
                            THEN traced'[1].new_members[x] ELSE {})
            /\ Distributes(traced'[1].new_members, tag_orphans' \ tag_orphans,
                           settings.tags)
            /\ tag_groups = <<>> => tag_orphans' = tag_orphans \cup Range(settings.tags)]_vars

\* add_new_tag_groups was called with max_groups 2 and the tags 5 and 6
\* next to three groups: it appended one group only, which took both tags,
\* the last ones with them, so no tag became an orphan
C30_Witness ==
    /\ pc = "grouped" /\ outcome = "ok"
    /\ settings.max_groups = 2 /\ settings.tags = <<5, 6>>
    /\ Len(tag_groups) = 4 /\ tag_groups[4] = {5, 6}
    /\ tag_orphans = {}

\* C31: in every reachable graph state the tag-to-tag edges are mirrored:
\* for any two tags a and b there are as many edges a->b as b->a, and in a
\* graph a call has built a directed path leads from a to b exactly when
\* one leads from b to a
C31_TagEdgesMirrored ==
    /\ \A a \in Range(tags), b \in Range(tags) :
          EdgeCount(edges, a, b) = EdgeCount(edges, b, a)
    /\ GraphBuilt =>
          \A a \in Range(tags) :
              \A b \in Reach(edges, {a}) \cap Range(tags) : a \in Reach(edges, {b})

\* a call has built a graph in which two tags are joined by edges of
\* different weights in the two directions, two tags are joined twice each
\* way, and two tags have no path between them
C31_Witness ==
    /\ GraphBuilt
    /\ \E x \in DOMAIN edges, y \in DOMAIN edges :
          /\ edges[x][1] = edges[y][2] /\ edges[x][2] = edges[y][1]
          /\ edges[x][1] \in Range(tags) /\ edges[x][2] \in Range(tags)
          /\ edges[x][3] # edges[y][3]
    /\ \E a \in Range(tags), b \in Range(tags) : EdgeCount(edges, a, b) >= 2
    /\ \E a \in Range(tags), b \in Range(tags) : b \notin Reach(edges, {a})

\* the edges of the list es that have no tag at either end
TaglessEdges(es) ==
    {x \in DOMAIN es : KindOf(es[x][1]) # "Tag" /\ KindOf(es[x][2]) # "Tag"}

\* C32: in every state reachable through new and simulate_epoch every edge
\* has a tag at one end at least, so every neighbour associated_tags lists
\* for a sheep or an item is a tag, and the first node after the sheep on a
\* path from a sheep is a tag: no edge leads from a sheep to a sheep or an
\* item
C32_EveryEdgeMeetsATag ==
    /\ TaglessEdges(edges) = {}
    /\ \A n \in Range(sheep) \cup Range(items) :
          Range(associated_tags(edges, n)) \subseteq Range(tags)
    /\ \A s \in Range(sheep) : \A x \in DOMAIN edges :
          edges[x][1] = s => edges[x][2] \in Range(tags)

\* after the second simulate_epoch an item created in an epoch and a sheep
\* have edges, and an item is reached from a sheep
C32_Witness ==
    /\ GraphBuilt /\ calls = 2
    /\ \E it \in Range(items) \cap created : associated_tags(edges, it) # <<>>
    /\ \E s \in Range(sheep) :
          /\ associated_tags(edges, s) # <<>>
          /\ Reach(edges, {s}) \cap Range(items) # {}

\* the ids of the nodes of the kind in the node list ns, in ascending order
IdsOfKind(ns, kind) == SortedSeq({n \in 0..(Len(ns) - 1) : ns[n + 1] = kind})

\* the three population lists are pairwise disjoint, hold no id twice, hold
\* together every node id of the graph, and each holds the nodes of its kind
PopulationsMatch(ns, ts, sh, its) ==
    /\ Range(ts) \cap Range(sh) = {}
    /\ Range(ts) \cap Range(its) = {}
    /\ Range(sh) \cap Range(its) = {}
    /\ Cardinality(Range(ts)) = Len(ts)
    /\ Cardinality(Range(sh)) = Len(sh)
    /\ Cardinality(Range(its)) = Len(its)
    /\ Range(ts) \cup Range(sh) \cup Range(its) = 0..(Len(ns) - 1)
    /\ \A n \in Range(ts) : ns[n + 1] = "Tag"
    /\ \A n \in Range(sh) : ns[n + 1] = "Sheep"
    /\ \A n \in Range(its) : ns[n + 1] = "Item"

\* C33: after new and after any number of simulate_epoch calls the tags,
\* sheep and items population lists are pairwise disjoint, hold no id
\* twice, hold together every node id 0..N-1 of the graph, each id in the
\* list of the kind its node was created with; a step only appends to the
\* node list and to the population lists, and a successful simulate_epoch
\* appends the items it created to the items population
C33_PopulationsMatchNodes ==
    [][/\ PopulationsMatch(nodes', tags', sheep', items')
       /\ IsPrefix(nodes, nodes') /\ IsPrefix(tags, tags')
       /\ IsPrefix(sheep, sheep') /\ IsPrefix(items, items')
       /\ (pc = "idle" /\ calls' # calls /\ outcome' = "ok") =>
             items' = items \o SubSeq(IdsOfKind(nodes', "Item"), Len(items) + 1,
                                      Len(IdsOfKind(nodes', "Item")))]_vars

\* the second simulate_epoch has created an item; the graph holds tags and
\* items created in an epoch next to the tags, sheep and items of the
\* seeding
C33_Witness ==
    /\ GraphBuilt /\ calls = 2 /\ outcome = "ok"
    /\ Range(items) \cap created # {}
    /\ Range(items) \ created # {}
    /\ \E t \in Range(tags), s \in Range(sheep) : t > s

\* the edges of the list es that start or end at the node n, each with its
\* place in the list
IncidentTo(es, n) == {<<x, es[x]>> : x \in {y \in DOMAIN es : es[y][1] = n \/ es[y][2] = n}}

\* the SheepIntroduction events among the events es
Introductions(es) == {es[x][2] : x \in {y \in DOMAIN es : es[y][2].kind = "SheepIntroduction"}}

\* C34: simulate_epoch never changes the sheep: after new, no step changes
\* the sheep population or the edges at a sheep, so the associated tags of
\* a sheep stay what they were; every SheepIntroduction written, in any
\* epoch and to any shepherd, carries exactly these tags, and each of them
\* is a tag of the seeding, created before the first sheep
C34_SheepNeverChange ==
    [][/\ pc # "start" =>
            /\ sheep' = sheep
            /\ \A s \in Range(sheep) :
                  /\ IncidentTo(edges', s) = IncidentTo(edges, s)
                  /\ associated_tags(edges', s) = associated_tags(edges, s)
       /\ \A e \in Introductions(events') :
            /\ e.sheep \in Range(sheep')
            /\ e.associated_tags = associated_tags(edges', e.sheep)
            /\ \A t \in Range(e.associated_tags) : t \in Range(tags') /\ t < sheep'[1]]_vars

\* in the second simulate_epoch the second shepherd was introduced to a
\* sheep with a tag, after tags and items were created in the epoch and
\* the items got their edges
C34_Witness ==
    /\ calls = 2 /\ k = 2
    /\ \E e \in Introductions(events) : e.associated_tags # <<>>
    /\ \E t \in Range(tags) : t > sheep[1]
    /\ \E it \in Range(items) \cap created : associated_tags(edges, it) # <<>>

\* the tag lists simulate_epoch can hand to add_to_tag_groups in a state:
\* no new tag, one, or two
NewTagLists == {create_nodes_ids(nodes, n) : n \in 0..2}

\* C35: with orphaned_tag_threshold >= 1 simulate_epoch never returns a
\* Poisson error, from any state new and earlier epochs lead to and under
\* every seed: add_to_tag_groups returns Ok for every tag list, empty or
\* not, whatever the number of groups, the orphan drain runs on a non-empty
\* snapshot only, and the call made returns Ok
C35_NoPoissonError ==
    [][(pc = "idle" /\ settings.orphaned_tag_threshold >= 1) =>
          /\ \A r \in Seeds \cup {rng} :
                /\ grow_graph(settings, r).ok
                /\ Bind(attach_tags(settings, r), LAMBDA att :
                      att.ok /\ (drain_due(att.orphans, settings) => att.orphans # {}))
                /\ \A ts \in NewTagLists :
                      add_to_tag_groups([edges |-> edges, rng |-> r], tag_groups,
                                        tag_orphans, ts, build.hash_rev).ok
          /\ calls' # calls => outcome' = "ok"]_vars

\* with orphaned_tag_threshold 1 the second simulate_epoch returned Ok: it
\* attached a new tag to the groups, and the graph holds groups and orphans
C35_Witness ==
    /\ calls = 2 /\ outcome = "ok" /\ GraphBuilt
    /\ settings.orphaned_tag_threshold = 1
    /\ Range(tags) \cap created # {}
    /\ tag_groups # <<>>

\* the shepherds of the roster that are dummy shepherds
Dummies == {kk \in Shepherds : roster[kk] = "dummy"}

\* the driver is inside new or simulate_epoch, between two steps
InCall == pc \in {"begin", "introduce", "request", "read"}

\* C36: the dummy shepherd writes exactly one Feed event for each
\* FeedRequest it reads and nothing for a BeginEpoch, SheepIntroduction or
\* Responses event; with the driver and the processes scheduled fairly,
\* every blocking read of a Feed is answered in the end and every call of
\* new and simulate_epoch returns
C36_DummyAnswersEveryRequest ==
    /\ [](\A kk \in Dummies : \A x \in DOMAIN dummies[kk].log :
              dummies[kk].log[x][2]
                  = (IF dummies[kk].log[x][1] = "FeedRequest" THEN 1 ELSE 0))
    /\ [](\A kk \in Dummies :
              Len(dummies[kk].stdout) <= 1
              /\ (dummies[kk].stdout # <<>> => pc = "read" /\ k = kk))
    /\ (pc = "read") ~> (pc # "read")
    /\ InCall ~> (pc = "idle")

\* the second simulate_epoch has returned: each of two dummy shepherds has
\* read events of the four kinds, among them four FeedRequests, and has
\* nothing left to read
C36_Witness ==
    /\ pc = "idle" /\ calls = 2 /\ Cardinality(Dummies) = 2
    /\ \A kk \in Dummies :
          /\ {dummies[kk].log[x][1] : x \in DOMAIN dummies[kk].log}
                = {"BeginEpoch", "SheepIntroduction", "FeedRequest", "Responses"}
          /\ Cardinality({x \in DOMAIN dummies[kk].log :
                            dummies[kk].log[x] = <<"FeedRequest", 1>>}) = 4
          /\ dummies[kk].stdin = <<>>

\* the items of the BeginEpoch events written to the shepherd so far
Announced(kk) == UNION {Range(begun[kk][x].items) : x \in DOMAIN begun[kk]}

\* the items of the feeds the driver has read from the shepherd for the sheep
SentTo(kk, s) == {it \in Range(items) : <<kk, s, it>> \in fed}

\* C37: every Feed a dummy shepherd sends for a sheep holds at most 10
\* pairwise distinct items, each announced in an earlier BeginEpoch and
\* none sent to that sheep before, and it is empty exactly when that sheep
\* has been sent every announced item: for the Feed on its way to the
\* driver, which asked for it for sheep[i]
C37_FeedsAreFreshItems ==
    \A kk \in Dummies :
        (dummies[kk].stdout # <<>> /\ pc = "read" /\ k = kk) =>
            Bind(Head(dummies[kk].stdout).items, LAMBDA feed :
                /\ Len(feed) <= 10
                /\ Cardinality(Range(feed)) = Len(feed)
                /\ Range(feed) \subseteq Announced(kk)
                /\ Range(feed) \cap SentTo(kk, sheep[i]) = {}
                /\ feed = <<>> <=> Announced(kk) \subseteq SentTo(kk, sheep[i]))

\* eleven items were announced and the sheep was sent ten of them in the
\* first epoch; the Feed of the second epoch holds the eleventh alone
C37_Witness ==
    /\ pc = "read" /\ calls = 2 /\ dummies[k].stdout # <<>>
    /\ Cardinality(Announced(k)) = 11
    /\ Cardinality(SentTo(k, sheep[i])) = 10
    /\ Len(Head(dummies[k].stdout).items) = 1

\* C38: after every completed FeedRequest/Feed exchange with a dummy
\* shepherd the seen-map the driver keeps for the shepherd equals the map
\* the dummy shepherd keeps itself, sheep by sheep: in every state where no
\* Feed of the shepherd is on its way to the driver
C38_SeenMapsAgree ==
    \A kk \in Dummies :
        dummies[kk].stdout = <<>> =>
            /\ DOMAIN sheep_seen[kk] = DOMAIN dummies[kk].sheep_seen
            /\ \A s \in DOMAIN sheep_seen[kk] :
                  sheep_seen[kk][s] = dummies[kk].sheep_seen[s]

\* two simulate_epoch calls have returned: each of two dummy shepherds has
\* answered both sheep twice, and both sides hold the same items for every
\* sheep, two at least, one of them created in the second epoch
C38_Witness ==
    /\ pc = "idle" /\ calls = 2 /\ Cardinality(Dummies) = 2
    /\ \A kk \in Dummies : \A s \in Range(sheep) :
          /\ s \in DOMAIN sheep_seen[kk] /\ s \in DOMAIN dummies[kk].sheep_seen
          /\ Cardinality(sheep_seen[kk][s]) >= 2
          /\ dummies[kk].sheep_seen[s] = sheep_seen[kk][s]
          /\ sheep_seen[kk][s] \cap created # {}

\* the (distance, draw) pairs process_feed met
Met == {<<traced[n].distance[1], traced[n].draw[1]>> :
           n \in {m \in DOMAIN traced : traced[m].distance # <<>>}}

\* the thresholds of the two copies at the distance d admit the same draws
ThresholdsAgree(d) ==
    \A c \in 0..UnitDen :
        /\ le_p_positive(c, d) <=> draw_le_ratio(c, p_positive_powi(d))
        /\ le_p_neutral(c, d) <=> draw_le_ratio(c, p_neutral_powi(d))

\* C39: the response model of src/src/sheep.rs computes the thresholds of
\* src/lib/src/sheep.rs, 2^-d and 9^d / 10^d: at every distance process_feed
\* met the thresholds of the two admit the same draws, and every
\* (distance, draw) pair it met gets the same rating from both
C39_CopiesAgree ==
    \A m \in Met :
        /\ ThresholdsAgree(m[1])
        /\ rate_powi(m[2], m[1]) = rate(m[2], m[1])

\* what src/src/sheep.rs does: d^2 is 1 or more and every draw is below 1,
\* so an item a path leads to is rated Positive whatever the draw
PowiRatesPositive ==
    \A m \in Met : m[1] >= 1 /\ rate_powi(m[2], m[1]) = "Positive"

\* process_feed met the distance 1 with a draw above one half: the
\* library rates the item Neutral, src/src/sheep.rs rates it Positive
CopiesDiffer ==
    \E m \in Met :
        /\ m[1] = 1 /\ m[2] > 1 /\ 2 * (m[2] - 1) > UnitDen
        /\ rate(m[2], m[1]) = "Neutral" /\ rate_powi(m[2], m[1]) = "Positive"
====
